---- MODULE Spec2Model ----
(***************************************************************************)
(* A model of the news pipeline of news-thats-not-crap: the fetch step     *)
(* (scripts/fetch-news.js: normalisation, positivity scoring, batch        *)
(* deduplication, the archive filter, the sort and the cut to 100), the    *)
(* curation step (scripts/curate-with-ai.js: batches, callWithRetry, the   *)
(* hero and featured flags, the fact-check), the site generation           *)
(* (scripts/generate-site.js: the gate on the curated file, article pages, *)
(* the homepage hero, the archive update) and the order of the steps in    *)
(* the daily scripts.                                                      *)
(*                                                                         *)
(* Text is modelled by TLA+ strings, a character being a string of length  *)
(* one; the JavaScript string methods the code calls (toLowerCase, slice,  *)
(* includes, replace, trim, split) are operators that compute what the     *)
(* methods compute on the ASCII range.  A field that may be missing from   *)
(* a raw item (undefined in JavaScript) is a sequence of length zero or    *)
(* one: << >> is undefined, << s >> is the string s.                       *)
(***************************************************************************)
EXTENDS Integers, Sequences, FiniteSets, TLC

VARIABLES
    pc,               \* position of fetchAllNews
    archiveFile,      \* data/article-archive.json: the sequence of its entries
    archiveSyntax,    \* what reading that file gives: "missing", "broken" (JSON.parse
                      \* throws), "noArticles" (an object without articles), "valid"
    publishedTitles,  \* Set of normalized headlines, in insertion order
    publishedUrls,    \* Set of source URLs, in insertion order
    feedIdx,          \* index of the feed fetchRSSFeeds is at
    queryIdx,         \* index of the query fetchNewsAPI is at
    pending,          \* raw items of the current source still to be processed
    fetched,          \* number of raw items the sources have delivered so far
    rssArticles,      \* fetchRSSFeeds: articles
    newsApiArticles,  \* fetchNewsAPI: articles
    lastItem,         \* the item normalized last, and whether it was pushed
    sourceStart,      \* articles.length when the current feed or query began
    lastFailure,      \* the path whose catch ran last, and what its source had pushed
    allArticles,
    uniqueArticles,
    freshArticles,
    topArticles,
    rawFile,          \* data/raw-articles.json: << >> until written
    siteRuns,         \* runs of generateSite so far
    siteResult,       \* how the last run of generateSite ended
    curatedFile,      \* data/curated-articles.json: << >> when there is none
    articlePages,     \* articles/<slug>.html: the pages on disk
    indexPage,        \* index.html: when it was last written, and its hero
    sectionPages,     \* the section pages: when they were last written
    phase,            \* position of the function application (function specifications)
    arg,              \* its input
    res               \* its results

vars == << pc, archiveFile, archiveSyntax, publishedTitles, publishedUrls,
           feedIdx, queryIdx, pending, fetched, rssArticles, newsApiArticles,
           lastItem, sourceStart, lastFailure, allArticles, uniqueArticles,
           freshArticles, topArticles, rawFile, siteRuns, siteResult, curatedFile,
           articlePages, indexPage, sectionPages, phase, arg, res >>

pipelineVars == << pc, archiveFile, archiveSyntax, publishedTitles,
                   publishedUrls, feedIdx, queryIdx, pending, fetched,
                   rssArticles, newsApiArticles, lastItem, sourceStart,
                   lastFailure, allArticles, uniqueArticles, freshArticles,
                   topArticles, rawFile >>

siteVars == << siteRuns, siteResult, curatedFile, articlePages, indexPage,
              sectionPages >>

harnessVars == << phase, arg, res >>

(***************************************************************************)
(* JavaScript values and string methods                                    *)
(***************************************************************************)
Min(a, b) == IF a <= b THEN a ELSE b

Range(s) == { s[i] : i \in 1..Len(s) }

\* a faulty default: a missing field becomes the text "undefined"
OrEmpty_asText(f) == IF f = << >> THEN "undefined" ELSE f[1]

\* x || '' for a field that may be undefined: undefined and '' give ''
OrEmpty(f) == IF f = << >> THEN "" ELSE f[1]

CharAt(s, i) == SubSeq(s, i, i)

UPPER == "ABCDEFGHIJKLMNOPQRSTUVWXYZ"
LOWER == "abcdefghijklmnopqrstuvwxyz"
DIGITS == "0123456789"

IndexIn(alphabet, c) ==
    IF \E i \in 1..Len(alphabet) : CharAt(alphabet, i) = c
    THEN CHOOSE i \in 1..Len(alphabet) : CharAt(alphabet, i) = c
    ELSE 0

toLowerChar(c) ==
    LET i == IndexIn(UPPER, c) IN IF i > 0 THEN CharAt(LOWER, i) ELSE c

\* s.toLowerCase(): character by character, the string cut in halves
RECURSIVE toLowerCase(_)
toLowerCase(s) ==
    IF Len(s) = 0 THEN ""
    ELSE IF Len(s) = 1 THEN toLowerChar(s)
    ELSE LET half == Len(s) \div 2
         IN  toLowerCase(SubSeq(s, 1, half)) \o toLowerCase(SubSeq(s, half + 1, Len(s)))

\* s.slice(0, n)
slice0(s, n) == SubSeq(s, 1, Min(n, Len(s)))

\* text.includes(keyword)
includes(text, keyword) ==
    \E i \in 0..(Len(text) - Len(keyword)) :
        SubSeq(text, i + 1, i + Len(keyword)) = keyword

(***************************************************************************)
(* Configuration                                                           *)
(***************************************************************************)
RSS_FEEDS == <<
    [source |-> "Positive News",             category |-> "general"],
    [source |-> "Good News Network",         category |-> "general"],
    [source |-> "Reasons to be Cheerful",    category |-> "general"],
    [source |-> "The Guardian Environment",  category |-> "climate"],
    [source |-> "Science Daily Environment", category |-> "climate"],
    [source |-> "Science Daily Climate",     category |-> "climate"],
    [source |-> "Science Daily Health",      category |-> "health"],
    [source |-> "Science Daily Mind",        category |-> "health"],
    [source |-> "Nature",                    category |-> "science"],
    [source |-> "BBC Science",               category |-> "science"],
    [source |-> "Science Daily Top",         category |-> "science"],
    [source |-> "Science Daily Animals",     category |-> "wildlife"] >>

POSITIVE_KEYWORDS == <<
    "breakthrough", "success", "achieve", "discover", "cure", "solve", "improve",
    "record", "first", "milestone", "victory", "win", "protect", "save", "restore",
    "recover", "grow", "increase", "reduce pollution", "clean energy", "renewable",
    "conservation", "preserved", "thriving", "hope", "progress", "advance",
    "treatment", "vaccine", "therapy", "innovation", "solution", "rescued",
    "recovery", "healing", "sustainable", "green", "solar", "wind power",
    "electric", "recycling", "biodiversity", "reforestation", "rewilding" >>

NEGATIVE_KEYWORDS == <<
    "death", "dies", "killed", "murder", "attack", "terror", "war", "crisis",
    "disaster", "catastrophe", "collapse", "crash", "fear", "threat", "danger",
    "scandal", "corruption", "fraud", "violence", "victim", "tragedy", "worst",
    "devastating", "alarming", "warning", "extinct", "failed", "failure" >>

\* the literal ['Positive News', 'Good News Network', 'Reasons to be Cheerful']
TRUSTED_SOURCES == << "Positive News", "Good News Network", "Reasons to be Cheerful" >>

NEG_PENALTY == 10
POS_REWARD == 2
TRUST_BONUS == 5

\* array.includes(x)
arrayIncludes(array, x) == \E i \in 1..Len(array) : array[i] = x

(***************************************************************************)
(* scorePositivity                                                         *)
(***************************************************************************)
\* a faulty scorePositivity: the bonus is given whatever the source is
scorePositivity_bonusAlways(article) ==
    LET text == toLowerCase(article.title \o " " \o article.description)
        neg == Cardinality({ i \in 1..Len(NEGATIVE_KEYWORDS) :
                               includes(text, NEGATIVE_KEYWORDS[i]) })
        pos == Cardinality({ i \in 1..Len(POSITIVE_KEYWORDS) :
                               includes(text, POSITIVE_KEYWORDS[i]) })
    IN  pos * POS_REWARD - neg * NEG_PENALTY + TRUST_BONUS

\* a faulty scorePositivity: it starts from the score the article already has
scorePositivity_accumulates(article) ==
    LET text == toLowerCase(article.title \o " " \o article.description)
        neg == Cardinality({ i \in 1..Len(NEGATIVE_KEYWORDS) :
                               includes(text, NEGATIVE_KEYWORDS[i]) })
        pos == Cardinality({ i \in 1..Len(POSITIVE_KEYWORDS) :
                               includes(text, POSITIVE_KEYWORDS[i]) })
        start == IF "positivityScore" \in DOMAIN article
                 THEN article.positivityScore ELSE 0
    IN  start + pos * POS_REWARD - neg * NEG_PENALTY
              + (IF arrayIncludes(TRUSTED_SOURCES, article.source)
                 THEN TRUST_BONUS ELSE 0)

\* one pass of a keyword loop: for (const keyword of keywords) if (...) score += delta
RECURSIVE keywordLoop(_, _, _, _, _)
keywordLoop(text, keywords, i, delta, score) ==
    IF i > Len(keywords) THEN score
    ELSE keywordLoop(text, keywords, i + 1, delta,
                     IF includes(text, keywords[i]) THEN score + delta ELSE score)

scorePositivity(article) ==
    LET text == toLowerCase(article.title \o " " \o article.description)
        s0 == 0
        s1 == keywordLoop(text, NEGATIVE_KEYWORDS, 1, 0 - NEG_PENALTY, s0)
        s2 == keywordLoop(text, POSITIVE_KEYWORDS, 1, POS_REWARD, s1)
        s3 == IF arrayIncludes(TRUSTED_SOURCES, article.source)
              THEN s2 + TRUST_BONUS ELSE s2
    IN  s3

(***************************************************************************)
(* Bounds of the pipeline specification                                    *)
(***************************************************************************)
MaxFeeds == 2      \* the feeds of RSS_FEEDS a run visits
MaxQueries == 1    \* the queries of fetchNewsAPI a run sends
MaxRaw == 2        \* raw items all sources together deliver in one run
MaxArchive == 1    \* entries of the archive file

\* fetchNewsAPI: the queries (only the category is used after the request)
QUERIES == <<
    [q |-> "scientific breakthrough",  category |-> "science"],
    [q |-> "medical breakthrough",     category |-> "health"],
    [q |-> "new treatment approved",   category |-> "health"],
    [q |-> "disease cure",             category |-> "health"],
    [q |-> "renewable energy record",  category |-> "climate"],
    [q |-> "climate solution",         category |-> "climate"],
    [q |-> "solar power milestone",    category |-> "climate"],
    [q |-> "wind energy record",       category |-> "climate"],
    [q |-> "conservation success",     category |-> "wildlife"],
    [q |-> "species recovery",         category |-> "wildlife"],
    [q |-> "wildlife protection",      category |-> "wildlife"],
    [q |-> "endangered species saved", category |-> "wildlife"],
    [q |-> "community success story",  category |-> "people"],
    [q |-> "humanitarian achievement", category |-> "people"] >>

\* the feeds a run visits, in the order of RSS_FEEDS: MaxFeeds of them, from
\* the last trusted feed, the third, on
VisitedFeeds == SubSeq(RSS_FEEDS, 3, Min(2 + MaxFeeds, Len(RSS_FEEDS)))

NumFeeds == Len(VisitedFeeds)
NumQueries == Min(MaxQueries, Len(QUERIES))

FEED_ITEM_LIMIT == 20   \* result.items.slice(0, 20)
MAX_ARTICLES == 100     \* slice(0, 100)
DEDUP_KEY_LENGTH == 50  \* title.toLowerCase().slice(0, 50)

(***************************************************************************)
(* Raw items the sources deliver                                           *)
(***************************************************************************)
RssItem(title, link, snippet) ==
    [title |-> title, link |-> link, contentSnippet |-> snippet,
     content |-> << >>, description |-> << >>, pubDate |-> << >>,
     isoDate |-> << >>]

RssItemPool ==
    { RssItem(<<"Solar record">>, <<"u1">>, <<"hope">>),    \* score > 0
      RssItem(<< >>, << >>, << >>),                         \* all fields missing
      [title |-> <<"War">>, link |-> <<"u3">>, contentSnippet |-> << >>,
       content |-> <<"">>, description |-> <<"attack">>,    \* score < 0
       pubDate |-> <<"">>, isoDate |-> <<"2024-04-30T10:00:00.000Z">>] }

\* an element of data.articles that is null: item.title of it throws a TypeError
NullItem == [isNull |-> TRUE]

isNull(item) == "isNull" \in DOMAIN item

ApiItem(title, url, description, sourceName) ==
    [title |-> title, url |-> url, description |-> description,
     sourceName |-> sourceName, publishedAt |-> << >>]

ApiItemPool ==
    { ApiItem(<<"SOLAR RECORD">>, <<"u5">>, <<"">>, << >>),     \* the key of an RSS item
      ApiItem(<<"War">>, <<"u3">>, << >>, <<"Positive News">>), \* trusted, score <= 0
      ApiItem(<<"[Removed]">>, <<"u6">>, <<"[Removed]">>, <<"BBC News">>),
      NullItem }                                                \* null in data.articles

RECURSIVE SeqsUpTo(_, _)
SeqsUpTo(S, n) ==
    IF n = 0 THEN { << >> }
    ELSE LET shorter == SeqsUpTo(S, n - 1)
         IN  shorter \cup { Append(s, x) : s \in { t \in shorter : Len(t) = n - 1 },
                                           x \in S }

ArchiveEntry(headline, sourceUrl) == [headline |-> headline, sourceUrl |-> sourceUrl]

PipelineArchivePool ==
    { ArchiveEntry(<<"Solar Record!">>, <<"u9">>),
      ArchiveEntry(<<"Rewritten headline">>, <<"u3">>) }

(***************************************************************************)
(* Normalisation of a raw item (the object literals of the two loops)      *)
(***************************************************************************)
Truthy(f) == f # << >> /\ f[1] # ""

\* new Date().toISOString() at the time of the fetch
FetchTimes == { "2024-05-01T06:00:00.000Z" }

normalizeRssItem(item, feed, now) ==
    [title |-> OrEmpty(item.title),
     link |-> OrEmpty(item.link),
     description |-> IF Truthy(item.contentSnippet) THEN item.contentSnippet[1]
                     ELSE IF Truthy(item.content) THEN item.content[1]
                     ELSE IF Truthy(item.description) THEN item.description[1]
                     ELSE "",
     pubDate |-> IF Truthy(item.pubDate) THEN item.pubDate[1]
                 ELSE IF Truthy(item.isoDate) THEN item.isoDate[1]
                 ELSE now,
     source |-> feed.source,
     category |-> feed.category]

normalizeApiItem(item, category, now) ==
    [title |-> OrEmpty(item.title),
     link |-> OrEmpty(item.url),
     description |-> OrEmpty(item.description),
     pubDate |-> IF Truthy(item.publishedAt) THEN item.publishedAt[1] ELSE now,
     source |-> IF Truthy(item.sourceName) THEN item.sourceName[1] ELSE "NewsAPI",
     category |-> category]

withScore(article) ==
    [title |-> article.title, link |-> article.link,
     description |-> article.description, pubDate |-> article.pubDate,
     source |-> article.source, category |-> article.category,
     positivityScore |-> scorePositivity(article)]

\* a faulty condition: every article is pushed
rssQualifies_always(article, feed) == TRUE

\* the condition under which the RSS loop pushes the article
rssQualifies(article, feed) ==
    article.positivityScore > 0 \/ arrayIncludes(TRUSTED_SOURCES, feed.source)

\* a faulty condition: a score of 0 is enough
apiQualifies_nonNegative(article) == article.positivityScore >= 0

\* the condition under which the search-API loop pushes the article
apiQualifies(article) == article.positivityScore > 0

\* the search-API loop skips an item with [Removed] content
apiRemoved(item) ==
    \/ item.title = <<"[Removed]">>
    \/ item.description = <<"[Removed]">>

(***************************************************************************)
(* Batch deduplication: the filter over allArticles with the Set seen      *)
(***************************************************************************)
dedupKey(article) == slice0(toLowerCase(article.title), DEDUP_KEY_LENGTH)

\* a faulty filter: a dropped article takes its key out of seen again
RECURSIVE dedupeLoop_forgets(_, _, _, _)
dedupeLoop_forgets(articles, i, seen, kept) ==
    IF i > Len(articles) THEN kept
    ELSE LET key == dedupKey(articles[i])
         IN  IF key \in seen
             THEN dedupeLoop_forgets(articles, i + 1, seen \ {key}, kept)
             ELSE dedupeLoop_forgets(articles, i + 1, seen \cup {key},
                                     Append(kept, articles[i]))

dedupeBatch_forgets(articles) == dedupeLoop_forgets(articles, 1, {}, << >>)

\* a faulty filter: the key is the title as it is, not lower-cased
RECURSIVE dedupeLoop_caseSensitive(_, _, _, _)
dedupeLoop_caseSensitive(articles, i, seen, kept) ==
    IF i > Len(articles) THEN kept
    ELSE LET key == slice0(articles[i].title, DEDUP_KEY_LENGTH)
         IN  IF key \in seen
             THEN dedupeLoop_caseSensitive(articles, i + 1, seen, kept)
             ELSE dedupeLoop_caseSensitive(articles, i + 1, seen \cup {key},
                                           Append(kept, articles[i]))

dedupeBatch_caseSensitive(articles) ==
    dedupeLoop_caseSensitive(articles, 1, {}, << >>)

\* a faulty filter: only the first article is kept
dedupeBatch_firstOnly(articles) ==
    IF articles = << >> THEN << >> ELSE << articles[1] >>

RECURSIVE dedupeLoop(_, _, _, _)
dedupeLoop(articles, i, seen, kept) ==
    IF i > Len(articles) THEN kept
    ELSE LET key == dedupKey(articles[i])
         IN  IF key \in seen
             THEN dedupeLoop(articles, i + 1, seen, kept)
             ELSE dedupeLoop(articles, i + 1, seen \cup {key},
                             Append(kept, articles[i]))

dedupeBatch(articles) == dedupeLoop(articles, 1, {}, << >>)

(***************************************************************************)
(* normalizeTitle                                                          *)
(***************************************************************************)
WHITESPACE == " \t"     \* the characters of \s the model has
TITLE_PREFIX == 80      \* .slice(0, 80)

isSpace(c) == IndexIn(WHITESPACE, c) > 0
isLowerAlnum(c) == IndexIn(LOWER, c) > 0 \/ IndexIn(DIGITS, c) > 0

\* .replace(/[^a-z0-9\s]/g, ''): character by character, the string cut in halves
RECURSIVE stripPunctuation(_)
stripPunctuation(s) ==
    IF Len(s) = 0 THEN ""
    ELSE IF Len(s) = 1 THEN (IF isLowerAlnum(s) \/ isSpace(s) THEN s ELSE "")
    ELSE LET half == Len(s) \div 2
         IN  stripPunctuation(SubSeq(s, 1, half))
                 \o stripPunctuation(SubSeq(s, half + 1, Len(s)))

\* .replace(/\s+/g, ' ') on the characters lo..hi of s: a run of whitespace
\* leaves one space, at the place of its first character
RECURSIVE collapseRange(_, _, _)
collapseRange(s, lo, hi) ==
    IF lo > hi THEN ""
    ELSE IF lo = hi
         THEN (IF ~isSpace(CharAt(s, lo)) THEN CharAt(s, lo)
               ELSE IF lo > 1 /\ isSpace(CharAt(s, lo - 1)) THEN "" ELSE " ")
    ELSE LET mid == (lo + hi) \div 2
         IN  collapseRange(s, lo, mid) \o collapseRange(s, mid + 1, hi)

collapseSpaces(s) == collapseRange(s, 1, Len(s))

\* .trim()
trim(s) ==
    LET inked == { i \in 1..Len(s) : ~isSpace(CharAt(s, i)) }
    IN  IF inked = {} THEN ""
        ELSE SubSeq(s, CHOOSE i \in inked : \A j \in inked : i <= j,
                       CHOOSE i \in inked : \A j \in inked : i >= j)

normalizeTitle(title) ==
    slice0(trim(collapseSpaces(stripPunctuation(toLowerCase(title)))),
           TITLE_PREFIX)

(***************************************************************************)
(* loadPublishedArticles: a JavaScript Set is kept in insertion order      *)
(***************************************************************************)
setAdd(set, x) == IF x \in Range(set) THEN set ELSE Append(set, x)
setHas(set, x) == x \in Range(set)

RECURSIVE loadTitles(_, _, _)
loadTitles(entries, i, titles) ==
    IF i > Len(entries) THEN titles
    ELSE loadTitles(entries, i + 1,
                    IF Truthy(entries[i].headline)
                    THEN setAdd(titles, normalizeTitle(entries[i].headline[1]))
                    ELSE titles)

loadUrls_none(entries, i, urls) == urls

RECURSIVE loadUrls(_, _, _)
loadUrls(entries, i, urls) ==
    IF i > Len(entries) THEN urls
    ELSE loadUrls(entries, i + 1,
                  IF Truthy(entries[i].sourceUrl)
                  THEN setAdd(urls, entries[i].sourceUrl[1])
                  ELSE urls)

\* an entry that is null in the file: article.headline of it throws a TypeError
NullEntry == NullItem

\* the entries the loop has gone through when it ends: all of them, or those
\* before the first entry whose reading throws
entriesRead(entries) ==
    LET throwing == { i \in 1..Len(entries) : isNull(entries[i]) }
    IN  IF throwing = {} THEN entries
        ELSE SubSeq(entries, 1, (CHOOSE i \in throwing : \A j \in throwing : i <= j) - 1)

\* the body of the try for the entries of archive.articles: the two Sets are
\* declared before the try, so what was added before a throw stays in them
loadPublishedArticles(file) ==
    [publishedTitles |-> loadTitles(entriesRead(file), 1, << >>),
     publishedUrls |-> loadUrls(entriesRead(file), 1, << >>)]

\* loadPublishedArticles from the file on disk: existsSync, JSON.parse in the
\* try, archive.articles || []
readArchive(syntax, file) ==
    IF syntax = "valid" THEN loadPublishedArticles(file)
    ELSE [publishedTitles |-> << >>, publishedUrls |-> << >>]

(***************************************************************************)
(* wasPublished                                                            *)
(***************************************************************************)
MIN_WORD_LENGTH == 3    \* w.length > 3
MIN_WORDS == 4          \* titleWords.length >= 4 && pubWords.length >= 4
RATIO_NUM == 7          \* matchRatio >= 0.7, as RATIO_NUM / RATIO_DEN
RATIO_DEN == 10

\* s.split(' '): the pieces between the spaces, empty pieces included
split(s) ==
    LET spaces == { i \in 1..Len(s) : CharAt(s, i) = " " }
        n == Cardinality(spaces)
        cut(k) == IF k = 0 THEN 0
                  ELSE IF k = n + 1 THEN Len(s) + 1
                  ELSE CHOOSE p \in spaces :
                           Cardinality({ q \in spaces : q <= p }) = k
    IN  [ k \in 1..(n + 1) |-> SubSeq(s, cut(k - 1) + 1, cut(k) - 1) ]

\* words.filter(w => w.length > 3)
RECURSIVE filterLong(_, _, _)
filterLong(words, i, kept) ==
    IF i > Len(words) THEN kept
    ELSE filterLong(words, i + 1,
                    IF Len(words[i]) > MIN_WORD_LENGTH
                    THEN Append(kept, words[i]) ELSE kept)

significantWords(normalized) == filterLong(split(normalized), 1, << >>)

\* titleWords.filter(w => pubWords.includes(w)).length
RECURSIVE countMatching(_, _, _, _)
countMatching(titleWords, pubWords, i, n) ==
    IF i > Len(titleWords) THEN n
    ELSE countMatching(titleWords, pubWords, i + 1,
                       IF arrayIncludes(pubWords, titleWords[i]) THEN n + 1 ELSE n)

\* a faulty threshold: 0.8
ratioAtLeast_higher(a, b) == a * RATIO_DEN >= (RATIO_NUM + 1) * b

\* a / b >= 0.7 for integers a >= 0 and b > 0: the quotient of the code is the
\* double nearest to a / b, and 0.7 is the double nearest to 7 / 10
ratioAtLeast(a, b) == a * RATIO_DEN >= RATIO_NUM * b

\* the body of the loop over publishedTitles: TRUE when it returns true
fuzzyMatches(titleWords, pubTitle) ==
    LET pubWords == significantWords(pubTitle)
    IN  /\ Len(titleWords) >= MIN_WORDS
        /\ Len(pubWords) >= MIN_WORDS
        /\ ratioAtLeast(countMatching(titleWords, pubWords, 1, 0),
                        Min(Len(titleWords), Len(pubWords)))

\* a faulty loop: it returns false at the first title with enough words that
\* does not match
RECURSIVE fuzzyLoop_earlyExit(_, _, _)
fuzzyLoop_earlyExit(titleWords, titles, i) ==
    IF i > Len(titles) THEN FALSE
    ELSE IF fuzzyMatches(titleWords, titles[i]) THEN TRUE
    ELSE IF Len(titleWords) >= MIN_WORDS
            /\ Len(significantWords(titles[i])) >= MIN_WORDS THEN FALSE
         ELSE fuzzyLoop_earlyExit(titleWords, titles, i + 1)

\* for (const pubTitle of publishedTitles) ... ; return false
RECURSIVE fuzzyLoop(_, _, _)
fuzzyLoop(titleWords, titles, i) ==
    IF i > Len(titles) THEN FALSE
    ELSE IF fuzzyMatches(titleWords, titles[i]) THEN TRUE
         ELSE fuzzyLoop(titleWords, titles, i + 1)

\* a faulty wasPublished: the check by URL is missing
wasPublished_noUrlCheck(article, titles, urls) ==
    LET normalizedTitle == normalizeTitle(article.title)
    IN  IF setHas(titles, normalizedTitle) THEN TRUE
        ELSE fuzzyLoop(significantWords(normalizedTitle), titles, 1)

\* a faulty wasPublished: an article without link counts as published
wasPublished_noLink(article, titles, urls) ==
    IF article.link = "" \/ setHas(urls, article.link) THEN TRUE
    ELSE LET normalizedTitle == normalizeTitle(article.title)
         IN  IF setHas(titles, normalizedTitle) THEN TRUE
             ELSE fuzzyLoop(significantWords(normalizedTitle), titles, 1)

wasPublished(article, titles, urls) ==
    IF article.link # "" /\ setHas(urls, article.link) THEN TRUE
    ELSE LET normalizedTitle == normalizeTitle(article.title)
         IN  IF setHas(titles, normalizedTitle) THEN TRUE
             ELSE fuzzyLoop(significantWords(normalizedTitle), titles, 1)

\* a faulty filter: it keeps every article
filterFresh_keepsAll(articles, titles, urls, i, kept) == articles

\* uniqueArticles.filter(article => !wasPublished(...))
RECURSIVE filterFresh(_, _, _, _, _)
filterFresh(articles, titles, urls, i, kept) ==
    IF i > Len(articles) THEN kept
    ELSE filterFresh(articles, titles, urls, i + 1,
                     IF wasPublished(articles[i], titles, urls)
                     THEN kept ELSE Append(kept, articles[i]))

(***************************************************************************)
(* The sort by score and the cut                                           *)
(***************************************************************************)
\* a faulty comparator: ascending
compareScore_ascending(a, b) == a.positivityScore - b.positivityScore

\* the comparator (a, b) => b.positivityScore - a.positivityScore
compareScore(a, b) == b.positivityScore - a.positivityScore

\* Array.prototype.sort is a stable sort (ECMAScript 2019): the element at
\* position i of the input goes behind the elements the comparator puts
\* before it and behind those of its own rank that were before it
sortByScore(articles) ==
    LET n == Len(articles)
        place == [ i \in 1..n |->
                     1 + Cardinality({ j \in 1..n :
                             \/ compareScore(articles[j], articles[i]) < 0
                             \/ /\ compareScore(articles[j], articles[i]) = 0
                                /\ j < i }) ]
    IN  [ k \in 1..n |-> articles[CHOOSE i \in 1..n : place[i] = k] ]

\* a faulty cut: slice(0, 99)
takeTop_oneShort(articles) == SubSeq(articles, 1, Min(MAX_ARTICLES - 1, Len(articles)))

\* articles.slice(0, 100)
takeTop(articles) == SubSeq(articles, 1, Min(MAX_ARTICLES, Len(articles)))

(***************************************************************************)
(* fetchAllNews, step by step                                              *)
(***************************************************************************)
HarnessOff == phase = "off" /\ arg = << >> /\ res = << >>

NoIndexUpdate == [updatedAt |-> 0, hero |-> << >>]

SiteOff ==
    /\ siteRuns = 0
    /\ siteResult = << >>
    /\ curatedFile = << >>
    /\ articlePages = { }
    /\ indexPage = NoIndexUpdate
    /\ sectionPages = 0

Init ==
    /\ pc = "load"
    /\ \/ /\ archiveSyntax = "valid"
          /\ archiveFile \in SeqsUpTo(PipelineArchivePool, MaxArchive)
       \/ /\ archiveSyntax = "missing"
          /\ archiveFile = << >>
       \/ /\ archiveSyntax = "broken"
          /\ archiveFile = << ArchiveEntry(<<"Solar Record!">>, <<"u9">>) >>
    /\ publishedTitles = << >>
    /\ publishedUrls = << >>
    /\ feedIdx = 1
    /\ queryIdx = 1
    /\ pending = << >>
    /\ fetched = 0
    /\ rssArticles = << >>
    /\ newsApiArticles = << >>
    /\ lastItem = << >>
    /\ sourceStart = 0
    /\ lastFailure = << >>
    /\ allArticles = << >>
    /\ uniqueArticles = << >>
    /\ freshArticles = << >>
    /\ topArticles = << >>
    /\ rawFile = << >>
    /\ HarnessOff
    /\ SiteOff

\* a faulty load: a file that does not parse is written anew, empty
LoadPublished_resetsBroken ==
    /\ pc = "load"
    /\ LET index == readArchive(archiveSyntax, archiveFile)
       IN  /\ publishedTitles' = index.publishedTitles
           /\ publishedUrls' = index.publishedUrls
    /\ IF archiveSyntax = "broken"
       THEN archiveFile' = << >> /\ archiveSyntax' = "valid"
       ELSE UNCHANGED << archiveFile, archiveSyntax >>
    /\ pc' = "rss"
    /\ UNCHANGED << feedIdx, queryIdx, pending, fetched, rssArticles,
                    newsApiArticles, lastItem, sourceStart, lastFailure,
                    allArticles, uniqueArticles, freshArticles, topArticles,
                    rawFile, harnessVars, siteVars >>

\* const { publishedTitles, publishedUrls } = loadPublishedArticles()
LoadPublished ==
    /\ pc = "load"
    /\ LET index == readArchive(archiveSyntax, archiveFile)
       IN  /\ publishedTitles' = index.publishedTitles
           /\ publishedUrls' = index.publishedUrls
    /\ pc' = "rss"
    /\ UNCHANGED << archiveFile, archiveSyntax, feedIdx, queryIdx, pending, fetched, rssArticles,
                    newsApiArticles, lastItem, allArticles, uniqueArticles,
                    freshArticles, topArticles, rawFile, harnessVars, siteVars,
                    sourceStart, lastFailure >>

\* fetchRSSFeeds: parser.parseURL(feed.url) returns a feed
RssParseOk ==
    /\ pc = "rss"
    /\ feedIdx <= NumFeeds
    /\ \E items \in SeqsUpTo(RssItemPool, MaxRaw - fetched) :
          LET taken == SubSeq(items, 1, Min(FEED_ITEM_LIMIT, Len(items)))
          IN  /\ fetched' = fetched + Len(items)
              /\ pending' = taken
              /\ IF taken = << >>
                 THEN feedIdx' = feedIdx + 1 /\ pc' = "rss"
                 ELSE feedIdx' = feedIdx /\ pc' = "rssItems"
    /\ sourceStart' = Len(rssArticles)
    /\ UNCHANGED << archiveFile, archiveSyntax, publishedTitles, publishedUrls,
                    queryIdx, rssArticles, newsApiArticles, lastItem,
                    lastFailure, allArticles, uniqueArticles, freshArticles,
                    topArticles, rawFile, harnessVars, siteVars >>

\* fetchRSSFeeds: parser.parseURL throws, the catch logs it
RssParseFails ==
    /\ pc = "rss"
    /\ feedIdx <= NumFeeds
    /\ feedIdx' = feedIdx + 1
    /\ sourceStart' = Len(rssArticles)
    /\ lastFailure' = << [path |-> "rss", pushed |-> << >>] >>
    /\ UNCHANGED << pc, archiveFile, archiveSyntax, publishedTitles,
                    publishedUrls, queryIdx, pending, fetched, rssArticles,
                    newsApiArticles, lastItem, allArticles, uniqueArticles,
                    freshArticles, topArticles, rawFile, harnessVars, siteVars >>

\* fetchRSSFeeds: one pass of the loop over the items of a feed
RssItemStep ==
    /\ pc = "rssItems"
    /\ pending # << >>
    /\ \E now \in FetchTimes :
          LET feed == VisitedFeeds[feedIdx]
              article == withScore(normalizeRssItem(Head(pending), feed, now))
              pushed == rssQualifies(article, feed)
          IN  /\ rssArticles' = IF pushed THEN Append(rssArticles, article)
                                ELSE rssArticles
              /\ lastItem' = << [path |-> "rss", article |-> article,
                                 pushed |-> pushed] >>
    /\ pending' = Tail(pending)
    /\ IF Tail(pending) = << >>
       THEN feedIdx' = feedIdx + 1 /\ pc' = "rss"
       ELSE feedIdx' = feedIdx /\ pc' = "rssItems"
    /\ UNCHANGED << archiveFile, archiveSyntax, publishedTitles, publishedUrls, queryIdx,
                    fetched, newsApiArticles, allArticles, uniqueArticles,
                    freshArticles, topArticles, rawFile, harnessVars, siteVars,
                    sourceStart, lastFailure >>

\* fetchRSSFeeds returns articles
RssDone ==
    /\ pc = "rss"
    /\ feedIdx > NumFeeds
    /\ pc' = "api"
    /\ UNCHANGED << archiveFile, archiveSyntax, publishedTitles, publishedUrls, feedIdx,
                    queryIdx, pending, fetched, rssArticles, newsApiArticles,
                    lastItem, allArticles, uniqueArticles, freshArticles,
                    topArticles, rawFile, harnessVars, siteVars,
                    sourceStart, lastFailure >>

\* fetchNewsAPI: NEWS_API_KEY is not set, return []
ApiNoKey ==
    /\ pc = "api"
    /\ pc' = "dedupe"
    /\ UNCHANGED << archiveFile, archiveSyntax, publishedTitles, publishedUrls, feedIdx,
                    queryIdx, pending, fetched, rssArticles, newsApiArticles,
                    lastItem, allArticles, uniqueArticles, freshArticles,
                    topArticles, rawFile, harnessVars, siteVars,
                    sourceStart, lastFailure >>

\* fetchNewsAPI: NEWS_API_KEY is set
ApiStart ==
    /\ pc = "api"
    /\ pc' = "apiQuery"
    /\ UNCHANGED << archiveFile, archiveSyntax, publishedTitles, publishedUrls, feedIdx,
                    queryIdx, pending, fetched, rssArticles, newsApiArticles,
                    lastItem, allArticles, uniqueArticles, freshArticles,
                    topArticles, rawFile, harnessVars, siteVars,
                    sourceStart, lastFailure >>

\* fetchNewsAPI: the response of one query; a response without data.articles
\* is the empty sequence of items
ApiFetchOk ==
    /\ pc = "apiQuery"
    /\ queryIdx <= NumQueries
    /\ \E items \in SeqsUpTo(ApiItemPool, MaxRaw - fetched) :
          /\ fetched' = fetched + Len(items)
          /\ pending' = items
          /\ IF items = << >>
             THEN queryIdx' = queryIdx + 1 /\ pc' = "apiQuery"
             ELSE queryIdx' = queryIdx /\ pc' = "apiItems"
    /\ sourceStart' = Len(newsApiArticles)
    /\ UNCHANGED << archiveFile, archiveSyntax, publishedTitles, publishedUrls,
                    feedIdx, rssArticles, newsApiArticles, lastItem,
                    lastFailure, allArticles, uniqueArticles, freshArticles,
                    topArticles, rawFile, harnessVars, siteVars >>

\* fetchNewsAPI: fetch or response.json() throws, the catch logs it
ApiFetchFails ==
    /\ pc = "apiQuery"
    /\ queryIdx <= NumQueries
    /\ queryIdx' = queryIdx + 1
    /\ sourceStart' = Len(newsApiArticles)
    /\ lastFailure' = << [path |-> "api", pushed |-> << >>] >>
    /\ UNCHANGED << pc, archiveFile, archiveSyntax, publishedTitles,
                    publishedUrls, feedIdx, pending, fetched, rssArticles,
                    newsApiArticles, lastItem, allArticles, uniqueArticles,
                    freshArticles, topArticles, rawFile, harnessVars, siteVars >>

\* fetchNewsAPI: one pass of the loop over data.articles
ApiItemStep ==
    /\ pc = "apiItems"
    /\ pending # << >>
    /\ ~isNull(Head(pending))
    /\ \E now \in FetchTimes :
          LET item == Head(pending)
              article == withScore(normalizeApiItem(item, QUERIES[queryIdx].category,
                                                    now))
              pushed == apiQualifies(article)
          IN  IF apiRemoved(item)
              THEN UNCHANGED << newsApiArticles, lastItem >>
              ELSE /\ newsApiArticles' = IF pushed
                                         THEN Append(newsApiArticles, article)
                                         ELSE newsApiArticles
                   /\ lastItem' = << [path |-> "api", article |-> article,
                                      pushed |-> pushed] >>
    /\ pending' = Tail(pending)
    /\ IF Tail(pending) = << >>
       THEN queryIdx' = queryIdx + 1 /\ pc' = "apiQuery"
       ELSE queryIdx' = queryIdx /\ pc' = "apiItems"
    /\ UNCHANGED << archiveFile, archiveSyntax, publishedTitles, publishedUrls,
                    feedIdx, fetched, rssArticles, sourceStart, lastFailure,
                    allArticles, uniqueArticles, freshArticles, topArticles,
                    rawFile, harnessVars, siteVars >>

\* fetchNewsAPI: the item is null, item.title throws a TypeError; the catch of
\* the query logs it and the loop over the queries goes on.  What the query
\* pushed before the item stays in articles.
ApiItemThrows ==
    /\ pc = "apiItems"
    /\ pending # << >>
    /\ isNull(Head(pending))
    /\ lastFailure' = << [path |-> "api",
                          pushed |-> SubSeq(newsApiArticles, sourceStart + 1,
                                            Len(newsApiArticles))] >>
    /\ pending' = << >>
    /\ queryIdx' = queryIdx + 1
    /\ pc' = "apiQuery"
    /\ UNCHANGED << archiveFile, archiveSyntax, publishedTitles, publishedUrls,
                    feedIdx, fetched, rssArticles, newsApiArticles, lastItem,
                    sourceStart, allArticles, uniqueArticles, freshArticles,
                    topArticles, rawFile, harnessVars, siteVars >>

\* fetchNewsAPI returns articles
ApiDone ==
    /\ pc = "apiQuery"
    /\ queryIdx > NumQueries
    /\ pc' = "dedupe"
    /\ UNCHANGED << archiveFile, archiveSyntax, publishedTitles, publishedUrls, feedIdx,
                    queryIdx, pending, fetched, rssArticles, newsApiArticles,
                    lastItem, allArticles, uniqueArticles, freshArticles,
                    topArticles, rawFile, harnessVars, siteVars,
                    sourceStart, lastFailure >>

\* allArticles = [...rssArticles, ...newsApiArticles] and the filter with seen
DedupeStep ==
    /\ pc = "dedupe"
    /\ allArticles' = rssArticles \o newsApiArticles
    /\ uniqueArticles' = dedupeBatch(rssArticles \o newsApiArticles)
    /\ pc' = "filter"
    /\ UNCHANGED << archiveFile, archiveSyntax, publishedTitles, publishedUrls, feedIdx,
                    queryIdx, pending, fetched, rssArticles, newsApiArticles,
                    lastItem, freshArticles, topArticles, rawFile, harnessVars, siteVars,
                    sourceStart, lastFailure >>

\* freshArticles = uniqueArticles.filter(article => !wasPublished(...))
FilterPublished ==
    /\ pc = "filter"
    /\ freshArticles' = filterFresh(uniqueArticles, publishedTitles,
                                    publishedUrls, 1, << >>)
    /\ pc' = "sort"
    /\ UNCHANGED << archiveFile, archiveSyntax, publishedTitles, publishedUrls, feedIdx,
                    queryIdx, pending, fetched, rssArticles, newsApiArticles,
                    lastItem, allArticles, uniqueArticles, topArticles, rawFile,
                    harnessVars, siteVars,
                    sourceStart, lastFailure >>

\* freshArticles.sort(...) sorts in place; topArticles = freshArticles.slice(0, 100)
SortAndTake ==
    /\ pc = "sort"
    /\ freshArticles' = sortByScore(freshArticles)
    /\ topArticles' = takeTop(sortByScore(freshArticles))
    /\ pc' = "save"
    /\ UNCHANGED << archiveFile, archiveSyntax, publishedTitles, publishedUrls, feedIdx,
                    queryIdx, pending, fetched, rssArticles, newsApiArticles,
                    lastItem, allArticles, uniqueArticles, rawFile, harnessVars, siteVars,
                    sourceStart, lastFailure >>

\* fs.writeFileSync(outputPath, JSON.stringify(topArticles)); return topArticles
SaveRaw ==
    /\ pc = "save"
    /\ rawFile' = << topArticles >>
    /\ pc' = "done"
    /\ UNCHANGED << archiveFile, archiveSyntax, publishedTitles, publishedUrls, feedIdx,
                    queryIdx, pending, fetched, rssArticles, newsApiArticles,
                    lastItem, allArticles, uniqueArticles, freshArticles,
                    topArticles, harnessVars, siteVars,
                    sourceStart, lastFailure >>

Next ==
    \/ LoadPublished
    \/ RssParseOk
    \/ RssParseFails
    \/ RssItemStep
    \/ RssDone
    \/ ApiNoKey
    \/ ApiStart
    \/ ApiFetchOk
    \/ ApiFetchFails
    \/ ApiItemStep
    \/ ApiItemThrows
    \/ ApiDone
    \/ DedupeStep
    \/ FilterPublished
    \/ SortAndTake
    \/ SaveRaw

Spec == Init /\ [][Next]_vars

\* C1: on either path, the RSS loop or the search-API loop, an item is pushed
\* if and only if its score is > 0 or its source is one of the three trusted
\* names.
C1_AdmissionRule ==
    lastItem # << >> =>
        (lastItem[1].pushed <=>
            \/ lastItem[1].article.positivityScore > 0
            \/ lastItem[1].article.source \in { "Positive News", "Good News Network",
                                                "Reasons to be Cheerful" })

\* C10: with an archive of zero entries wasPublished is false for every
\* candidate, and the archive filter leaves the deduplicated batch as it is.
C10_EmptyArchiveKeepsAll ==
    (archiveFile = << >> /\ pc = "sort") =>
        /\ freshArticles = uniqueArticles
        /\ \A article \in Range(uniqueArticles) :
               ~wasPublished(article, publishedTitles, publishedUrls)

\* an empty archive and a batch of two, one of them without title and link
C10_Witness ==
    /\ archiveFile = << >>
    /\ pc = "sort"
    /\ Len(uniqueArticles) = 2
    /\ \E i \in 1..2 : uniqueArticles[i].link = "" /\ uniqueArticles[i].title = ""
    /\ freshArticles = uniqueArticles

\* C12: a source that failed, at whatever point of its fetching or
\* processing, has contributed no candidate, and the run goes on.
C12_FailedSourceContributesNothing ==
    lastFailure # << >> => lastFailure[1].pushed = << >>

\* C14: what fetchAllNews returns is the cut to 100 of the sort of the
\* archive filter of the batch deduplication of the RSS candidates followed
\* by the search-API candidates; so every returned candidate has a score > 0
\* or a trusted source, no two have the same key, none is published
\* according to wasPublished, and there are at most 100.
C14_StageOrder ==
    pc \in { "save", "done" } =>
        /\ topArticles =
              takeTop(sortByScore(filterFresh(dedupeBatch(rssArticles \o newsApiArticles),
                                              publishedTitles, publishedUrls,
                                              1, << >>)))
        /\ \A i \in 1..Len(topArticles) :
              /\ \/ topArticles[i].positivityScore > 0
                 \/ topArticles[i].source \in { "Positive News", "Good News Network",
                                                "Reasons to be Cheerful" }
              /\ ~wasPublished(topArticles[i], publishedTitles, publishedUrls)
              /\ \A j \in 1..Len(topArticles) :
                    (slice0(toLowerCase(topArticles[i].title), 50)
                         = slice0(toLowerCase(topArticles[j].title), 50)) => i = j
        /\ Len(topArticles) <= 100
        /\ pc = "done" => rawFile = << topArticles >>

\* two candidates with different keys, one of which the archive has: one is
\* returned
C14_Witness ==
    /\ pc = "done"
    /\ Len(rssArticles \o newsApiArticles) = 2
    /\ Len(uniqueArticles) = 2
    /\ Len(topArticles) = 1
    /\ rawFile = << topArticles >>

\* C19: no step of a fetch run changes the archive file, and the only file a
\* run writes is the list of raw articles, in its last step.
C19_ArchiveUntouched ==
    [][/\ archiveFile' = archiveFile
       /\ archiveSyntax' = archiveSyntax
       /\ rawFile' # rawFile => (pc = "save" /\ rawFile' = << topArticles >>)]_vars

\* a run that read an archive of one entry and wrote its list
C19_Witness ==
    /\ pc = "done"
    /\ archiveSyntax = "valid"
    /\ Len(archiveFile) = 1
    /\ publishedTitles # << >>
    /\ rawFile = << topArticles >>
    /\ topArticles # << >>

(***************************************************************************)
(* The functions on their own: a specification per function draws the      *)
(* input in its initial state and applies the function in its steps.       *)
(***************************************************************************)
PipelineOff ==
    /\ pc = "off"
    /\ archiveFile = << >>
    /\ archiveSyntax = "missing"
    /\ publishedTitles = << >>
    /\ publishedUrls = << >>
    /\ feedIdx = 1
    /\ queryIdx = 1
    /\ pending = << >>
    /\ fetched = 0
    /\ rssArticles = << >>
    /\ newsApiArticles = << >>
    /\ lastItem = << >>
    /\ sourceStart = 0
    /\ lastFailure = << >>
    /\ allArticles = << >>
    /\ uniqueArticles = << >>
    /\ freshArticles = << >>
    /\ topArticles = << >>
    /\ rawFile = << >>
    /\ SiteOff

(***************************************************************************)
(* scorePositivity on its own                                              *)
(***************************************************************************)
ScoreTitles ==
    { "", "Solar record", "SOLAR Record", "War", "Warning: storm",
      "Wind power wins", "Solar solar solar", "Clean", "Recovery of reef",
      "A quiet day" }

ScoreDescriptions ==
    { "", "energy boom", "Crisis and death", "hope", "Hope and hope" }

ScoreSources ==
    { "Positive News", "positive news", "Good News Network",
      "Reasons to be Cheerful", "BBC Science", "NewsAPI" }

InitScore ==
    /\ PipelineOff
    /\ phase = "score"
    /\ arg \in [title : ScoreTitles, link : {"u1"}, description : ScoreDescriptions,
                source : ScoreSources, category : {"general"}]
    /\ res = << >>

\* article.positivityScore = scorePositivity(article)
ApplyScore ==
    /\ phase = "score"
    /\ res' = << scorePositivity(arg) >>
    /\ phase' = "scored"
    /\ UNCHANGED << arg, pipelineVars, siteVars >>

\* the conditions of the two loops on the scored article: an RSS article has
\* the source of its feed
ApplyQualify ==
    /\ phase = "scored"
    /\ LET article == [positivityScore |-> res[1]]
       IN  res' = << res[1], rssQualifies(article, [source |-> arg.source]),
                    apiQualifies(article) >>
    /\ phase' = "qualified"
    /\ UNCHANGED << arg, pipelineVars, siteVars >>

\* a second call, on the article as the loop has left it: the object of the
\* first call with its positivityScore set
ApplyScoreAgain ==
    /\ phase = "qualified"
    /\ LET article == [title |-> arg.title, link |-> arg.link,
                       description |-> arg.description, source |-> arg.source,
                       category |-> arg.category, positivityScore |-> res[1]]
       IN  res' = << res[1], res[2], res[3], scorePositivity(article) >>
    /\ phase' = "rescored"
    /\ UNCHANGED << arg, pipelineVars, siteVars >>

NextScore == ApplyScore \/ ApplyQualify \/ ApplyScoreAgain

SpecScore == InitScore /\ [][NextScore]_vars

\* C2: the score is -10 for every negative keyword that occurs in the
\* lower-cased text "title description", +2 for every positive keyword that
\* occurs in it, +5 when the source is one of the three trusted names; a
\* keyword counts once however often it occurs.
ScoredText == toLowerCase(arg.title \o " " \o arg.description)

OccurringKeywords(keywords) ==
    { k \in Range(keywords) : includes(ScoredText, k) }

C2_ScoreFormula ==
    phase = "scored" =>
        res[1] = (-10) * Cardinality(OccurringKeywords(NEGATIVE_KEYWORDS))
                 + 2 * Cardinality(OccurringKeywords(POSITIVE_KEYWORDS))
                 + (IF arg.source \in { "Positive News", "Good News Network",
                                        "Reasons to be Cheerful" }
                    THEN 5 ELSE 0)

\* a keyword that occurs three times, a negative and a positive keyword
\* together, and a source that is not trusted
C2_Witness ==
    /\ phase = "scored"
    /\ arg.title = "Solar solar solar"
    /\ arg.description = "Crisis and death"
    /\ arg.source = "positive news"
    /\ res = << -18 >>

OneNegativeOnePositive ==
    /\ Cardinality(OccurringKeywords(NEGATIVE_KEYWORDS)) = 1
    /\ Cardinality(OccurringKeywords(POSITIVE_KEYWORDS)) = 1

TrustedName ==
    arg.source \in { "Positive News", "Good News Network", "Reasons to be Cheerful" }

\* C15, as the spec states it: a text with exactly one negative and exactly
\* one positive keyword scores 2 - 10 = -8, and the candidate qualifies only
\* if its source is trusted.
C15_BoundaryScore ==
    (phase = "qualified" /\ OneNegativeOnePositive) =>
        /\ res[1] = -8
        /\ res[2] => TrustedName
        /\ res[3] => TrustedName

\* C15, amended: such a text scores -8 when the source is not trusted and
\* -8 + 5 = -3 when it is, and the candidate qualifies only if its source is
\* trusted.
C15_BoundaryScoreWithBonus ==
    (phase = "qualified" /\ OneNegativeOnePositive) =>
        /\ res[1] = IF TrustedName THEN -3 ELSE -8
        /\ res[2] => TrustedName
        /\ res[3] => TrustedName

\* "war hope" from a trusted source: -3, pushed by the RSS loop only
C15_Witness ==
    /\ phase = "qualified"
    /\ arg.title = "War"
    /\ arg.description = "hope"
    /\ arg.source = "Good News Network"
    /\ res = << -3, TRUE, FALSE >>

\* "war hope" from a source that is not trusted: -8, not pushed
C15_WitnessUntrusted ==
    /\ phase = "qualified"
    /\ arg.title = "War"
    /\ arg.description = "hope"
    /\ arg.source = "BBC Science"
    /\ res = << -8, FALSE, FALSE >>

EmptyText == arg.title = "" /\ arg.description = ""

\* C16, as the spec states it: an empty title and an empty description score
\* 0, and the candidate is admitted only by the override for trusted
\* sources, never by a score > 0.
C16_EmptyTextScoresZero ==
    (phase = "qualified" /\ EmptyText) =>
        /\ res[1] = 0
        /\ res[2] <=> TrustedName
        /\ res[3] = FALSE

\* C16, amended: an empty title and an empty description score 0 when the
\* source is not trusted and 5, the trust bonus, when it is; the candidate
\* is admitted, by either loop, exactly when its source is trusted.
C16_EmptyTextScoresBonus ==
    (phase = "qualified" /\ EmptyText) =>
        /\ res[1] = IF TrustedName THEN 5 ELSE 0
        /\ res[2] <=> TrustedName
        /\ res[3] <=> TrustedName

\* no text and a trusted source: 5, pushed by both loops
C16_Witness ==
    /\ phase = "qualified"
    /\ EmptyText
    /\ arg.source = "Positive News"
    /\ res = << 5, TRUE, TRUE >>

MaxShort == 4   \* length of the lists drawn score by score
MaxOver == 2    \* how far the long lists go beyond MAX_ARTICLES

ShortScores == { 3, 5, 8 }

\* the long lists: candidate i has the score (i * a) % m
LongPatterns == { <<0, 1>>, <<1, 7>>, <<3, 7>>, <<1, 200>>, <<199, 200>> }

Candidates(scores) ==
    [ i \in 1..Len(scores) |-> [id |-> i, positivityScore |-> scores[i]] ]

SelectInputs ==
    { Candidates(scores) : scores \in SeqsUpTo(ShortScores, MaxShort) }
    \cup
    { [ i \in 1..n |-> [id |-> i, positivityScore |-> (i * p[1]) % p[2]] ] :
        n \in (MAX_ARTICLES - 1)..(MAX_ARTICLES + MaxOver), p \in LongPatterns }

InitSelect ==
    /\ PipelineOff
    /\ phase = "select"
    /\ arg \in SelectInputs
    /\ res = << >>

\* freshArticles.sort(...); topArticles = freshArticles.slice(0, 100)
ApplySelect ==
    /\ phase = "select"
    /\ res' = << takeTop(sortByScore(arg)) >>
    /\ phase' = "selected"
    /\ UNCHANGED << arg, pipelineVars, siteVars >>

NextSelect == ApplySelect

SpecSelect == InitSelect /\ [][NextSelect]_vars

\* C3: the selected candidates are in non-increasing order of score, and two
\* of equal score are in the order they had in the input.
C3_SortedStable ==
    phase = "selected" =>
        LET top == res[1]
        IN  \A i, j \in 1..Len(top) :
                i < j =>
                    /\ top[i].positivityScore >= top[j].positivityScore
                    /\ top[i].positivityScore = top[j].positivityScore
                           => top[i].id < top[j].id

\* the scores 5, 5, 3, 8 of the claim: 8, the first 5, the second 5 (and 3,
\* the cut being at 100)
C3_Witness ==
    /\ phase = "selected"
    /\ arg = Candidates(<<5, 5, 3, 8>>)
    /\ res[1] = << [id |-> 4, positivityScore |-> 8],
                   [id |-> 1, positivityScore |-> 5],
                   [id |-> 2, positivityScore |-> 5],
                   [id |-> 3, positivityScore |-> 3] >>

\* C4: min(n, 100) candidates of the input are selected, none twice; an input
\* of at most 100 loses none, and a dropped candidate never has a higher
\* score than a selected one.
C4_CountAndCut ==
    phase = "selected" =>
        LET top == res[1]
            kept == { top[i].id : i \in 1..Len(top) }
        IN  /\ Len(top) = (IF Len(arg) <= 100 THEN Len(arg) ELSE 100)
            /\ Cardinality(kept) = Len(top)
            /\ \A i \in 1..Len(top) : top[i] = arg[top[i].id]
            /\ Len(arg) <= 100 => kept = 1..Len(arg)
            /\ \A d \in (1..Len(arg)) \ kept :
                   \A i \in 1..Len(top) :
                       arg[d].positivityScore <= top[i].positivityScore

\* 102 candidates of seven different scores: two are dropped
C4_Witness ==
    /\ phase = "selected"
    /\ Len(arg) = 102
    /\ Len(res[1]) = 100
    /\ \E i, j \in 1..Len(arg) : arg[i].positivityScore < arg[j].positivityScore
    /\ \E i \in 1..Len(arg) : \A k \in 1..Len(res[1]) : res[1][k].id # i

(***************************************************************************)
(* Batch deduplication on its own.  A candidate is its title and id, the   *)
(* position it has in the input.                                           *)
(***************************************************************************)
MaxBatch == 3   \* length of the lists handed to the filter

DedupeTitles ==
    { "Scientists Discover New Coral Species Thriving Near Deep Ocean Vents",
      "Scientists discover new coral species thriving near shallow reefs",
      "Solar record",
      "SOLAR RECORD",
      "Solar records",
      "Coral Reef Shows Record Recovery After Bleaching Event",
      "Scientists Achieve Coral Reef Recovery Record After Bleaching",
      "" }

Titled(titles) == [ i \in 1..Len(titles) |-> [id |-> i, title |-> titles[i]] ]

InitDedupe ==
    /\ PipelineOff
    /\ phase = "dedupe"
    /\ arg \in { Titled(titles) : titles \in SeqsUpTo(DedupeTitles, MaxBatch) }
    /\ res = << >>

\* uniqueArticles = allArticles.filter(...)
ApplyDedupe ==
    /\ phase = "dedupe"
    /\ res' = << dedupeBatch(arg) >>
    /\ phase' = "deduped"
    /\ UNCHANGED << arg, pipelineVars, siteVars >>

\* the filter once more, on its own output
ApplyDedupeAgain ==
    /\ phase = "deduped"
    /\ res' = << res[1], dedupeBatch(res[1]) >>
    /\ phase' = "dedupedTwice"
    /\ UNCHANGED << arg, pipelineVars, siteVars >>

NextDedupe == ApplyDedupe \/ ApplyDedupeAgain

SpecDedupe == InitDedupe /\ [][NextDedupe]_vars

\* C5: a candidate survives exactly when no earlier candidate of the input
\* has its key (the first 50 characters of the title, lower-cased); the
\* survivors keep their order, and every key of the input is a key of the
\* output.
KeyOf(candidate) == toLowerCase(SubSeq(candidate.title, 1, Min(50, Len(candidate.title))))

C5_FirstOccurrenceWins ==
    phase \in { "deduped", "dedupedTwice" } =>
        LET out == res[1]
            kept == { out[k].id : k \in 1..Len(out) }
        IN  /\ \A k \in 1..Len(out) : out[k] = arg[out[k].id]
            /\ \A k, l \in 1..Len(out) : k < l => out[k].id < out[l].id
            /\ \A i \in 1..Len(arg) :
                   i \in kept <=> ~ \E j \in 1..(i - 1) : KeyOf(arg[j]) = KeyOf(arg[i])
            /\ { KeyOf(arg[i]) : i \in 1..Len(arg) }
                   = { KeyOf(out[k]) : k \in 1..Len(out) }

\* two titles that agree on their first 50 characters only, and a title that
\* is on its own: the second is dropped
C5_Witness ==
    /\ phase = "deduped"
    /\ arg = Titled(<< "Scientists Discover New Coral Species Thriving Near Deep Ocean Vents",
                       "Scientists discover new coral species thriving near shallow reefs",
                       "Solar record" >>)
    /\ res[1] = << arg[1], arg[3] >>

\* C6: the filter applied to its own output returns it unchanged.
C6_Idempotent ==
    phase = "dedupedTwice" => res[2] = res[1]

\* an input of which the first application dropped a candidate and kept two
C6_Witness ==
    /\ phase = "dedupedTwice"
    /\ Len(arg) = 3
    /\ Len(res[1]) = 2
    /\ res[2] = res[1]

(***************************************************************************)
(* loadPublishedArticles and wasPublished on their own                     *)
(***************************************************************************)
MaxEntries == 2   \* entries of the archive file

LongHeadline ==
    "Scientists Discover New Coral Species Thriving Near Deep Ocean Vents In The Pacific Region Today"
LongTitle ==
    "Scientists discover new coral species thriving near deep ocean vents in the Pacific Ocean, again"

ArchivePool ==
    { ArchiveEntry(<<"Coral Reef Shows Record Recovery After Bleaching">>, <<"u1">>),
      ArchiveEntry(<<"Solar Record!">>, <<"">>),           \* sourceUrl ''
      ArchiveEntry(<<"">>, <<"u2">>),                      \* headline ''
      ArchiveEntry(<<"!!!">>, << >>),                      \* no sourceUrl
      ArchiveEntry(<<"Giant panda numbers rise">>, <<"u3">>),
      ArchiveEntry(<<LongHeadline>>, <<"u4">>) }

Candidate(title, link) == [title |-> title, link |-> link]

CandidatePool ==
    { Candidate("coral reef shows  record\trecovery after bleaching.", "u7"),
      Candidate("Scientists Achieve Coral Reef Recovery Record After Bleaching", "u8"),
      Candidate("Giant panda numbers fall", "u9"),
      Candidate("Giant panda habitat lost", ""),
      Candidate("", "u1"),
      Candidate("", ""),
      Candidate("Unrelated short", "u2"),
      Candidate(LongTitle, "u5"),
      Candidate("Panda panda panda panda", "u6"),
      Candidate("Giant panda numbers", "u6") }

InitArchive ==
    /\ PipelineOff
    /\ phase = "archive"
    /\ arg \in [file : SeqsUpTo(ArchivePool, MaxEntries), article : CandidatePool]
    /\ res = << >>

\* const { publishedTitles, publishedUrls } = loadPublishedArticles()
ApplyLoad ==
    /\ phase = "archive"
    /\ res' = << loadPublishedArticles(arg.file) >>
    /\ phase' = "loaded"
    /\ UNCHANGED << arg, pipelineVars, siteVars >>

\* wasPublished(article, publishedTitles, publishedUrls)
ApplyWasPublished ==
    /\ phase = "loaded"
    /\ res' = << res[1], wasPublished(arg.article, res[1].publishedTitles,
                                      res[1].publishedUrls) >>
    /\ phase' = "checked"
    /\ UNCHANGED << arg, pipelineVars, siteVars >>

NextArchive == ApplyLoad \/ ApplyWasPublished

SpecArchive == InitArchive /\ [][NextArchive]_vars

\* the entries of the file, and what the claims say of a pair of titles
Entries == Range(arg.file)

\* C7, as the spec states it: a candidate whose link equals the sourceUrl of
\* an archive entry is reported published, whatever its title is.
C7_UrlMatchAnyLink ==
    phase = "checked" =>
        ((\E e \in Entries : e.sourceUrl = << arg.article.link >>) => res[2] = TRUE)

\* C7, amended: a candidate whose link is not empty and equals the sourceUrl
\* of an archive entry is reported published, whatever its title is.
C7_UrlMatch ==
    phase = "checked" =>
        ((/\ arg.article.link # ""
          /\ \E e \in Entries : e.sourceUrl = << arg.article.link >>)
             => res[2] = TRUE)

\* an empty title, and a link that is the sourceUrl of the one entry, whose
\* headline is far from the title
C7_Witness ==
    /\ phase = "checked"
    /\ arg.article = Candidate("", "u1")
    /\ arg.file = << ArchiveEntry(<<"Coral Reef Shows Record Recovery After Bleaching">>,
                                  <<"u1">>) >>
    /\ res[2] = TRUE

\* the words of length > 3 of a normalized title, and the words of the first
\* title, counted with repetition, that the second has
Words(normalized) == SelectSeq(split(normalized), LAMBDA w : Len(w) > 3)

SharedCount(titleWords, pubWords) ==
    Cardinality({ i \in 1..Len(titleWords) : titleWords[i] \in Range(pubWords) })

FuzzyPair(normalized, pubTitle) ==
    LET titleWords == Words(normalized)
        pubWords == Words(pubTitle)
    IN  /\ Len(titleWords) >= 4
        /\ Len(pubWords) >= 4
        /\ 10 * SharedCount(titleWords, pubWords)
               >= 7 * Min(Len(titleWords), Len(pubWords))

\* C8: a pair of normalized titles with at least 4 words of length > 3 each
\* and matching / min(lengths) >= 0.7 makes the candidate published; a pair
\* below 0.7, or with fewer than 4 such words in either title, does not: a
\* candidate that no URL and no equal title makes published is published
\* only if some pair is at 0.7 or above.
C8_FuzzyRule ==
    phase = "checked" =>
        LET titles == Range(res[1].publishedTitles)
            normalized == normalizeTitle(arg.article.title)
            fuzzy == \E t \in titles : FuzzyPair(normalized, t)
        IN  /\ fuzzy => res[2] = TRUE
            /\ (/\ res[2] = TRUE
                /\ arg.article.link \notin Range(res[1].publishedUrls)
                /\ normalized \notin titles) => fuzzy

\* 3 of 4 words shared: published
C8_Witness ==
    /\ phase = "checked"
    /\ arg.article = Candidate("Giant panda numbers fall", "u9")
    /\ arg.file = << ArchiveEntry(<<"Giant panda numbers rise">>, <<"u3">>) >>
    /\ res[2] = TRUE

\* 2 of 4 words shared: not published
C8_WitnessBelow ==
    /\ phase = "checked"
    /\ arg.article = Candidate("Giant panda habitat lost", "")
    /\ arg.file = << ArchiveEntry(<<"Giant panda numbers rise">>, <<"u3">>) >>
    /\ res[2] = FALSE

\* the normalized form of every title and headline of the pools, written out:
\* lower case, only a-z, 0-9 and whitespace, runs of whitespace one space,
\* trimmed, the first 80 characters
NormalForm(title) ==
    CASE title = "Coral Reef Shows Record Recovery After Bleaching"
             -> "coral reef shows record recovery after bleaching"
      [] title = "coral reef shows  record\trecovery after bleaching."
             -> "coral reef shows record recovery after bleaching"
      [] title = "Solar Record!" -> "solar record"
      [] title = "" -> ""
      [] title = "!!!" -> ""
      [] title = "Giant panda numbers rise" -> "giant panda numbers rise"
      [] title = "Giant panda numbers fall" -> "giant panda numbers fall"
      [] title = "Giant panda habitat lost" -> "giant panda habitat lost"
      [] title = "Giant panda numbers" -> "giant panda numbers"
      [] title = "Panda panda panda panda" -> "panda panda panda panda"
      [] title = "Unrelated short" -> "unrelated short"
      [] title = "Scientists Achieve Coral Reef Recovery Record After Bleaching"
             -> "scientists achieve coral reef recovery record after bleaching"
      [] title = LongHeadline
             -> "scientists discover new coral species thriving near deep ocean vents in the paci"
      [] title = LongTitle
             -> "scientists discover new coral species thriving near deep ocean vents in the paci"

\* the permutations of a file
Reorderings(file) ==
    { [ i \in 1..Len(file) |-> file[p[i]] ] : p \in Permutations(1..Len(file)) }

SameWhateverTheOrder ==
    \A file \in Reorderings(arg.file) :
        LET index == loadPublishedArticles(file)
        IN  wasPublished(arg.article, index.publishedTitles, index.publishedUrls)
                = res[2]

\* C9, as the spec states it: published if and only if the link equals an
\* archived sourceUrl, or the normalized title equals a normalized archived
\* headline, or the fuzzy rule matches an archived title; the same whatever
\* the order of the entries.
C9_ThreeRulesAnyValue ==
    phase = "checked" =>
        LET normalized == NormalForm(arg.article.title)
            rule1 == \E e \in Entries : e.sourceUrl = << arg.article.link >>
            rule2 == \E e \in Entries :
                        e.headline # << >> /\ NormalForm(e.headline[1]) = normalized
            rule3 == \E e \in Entries :
                        /\ e.headline # << >>
                        /\ FuzzyPair(normalized, NormalForm(e.headline[1]))
        IN  /\ res[2] <=> (rule1 \/ rule2 \/ rule3)
            /\ SameWhateverTheOrder

\* C9, amended: published if and only if the link is not empty and equals an
\* archived sourceUrl, or the normalized title equals the normalized headline
\* of an entry whose headline is not empty, or the fuzzy rule matches the
\* normalized headline of such an entry; the same whatever the order of the
\* entries.
C9_ThreeRules ==
    phase = "checked" =>
        LET normalized == NormalForm(arg.article.title)
            titled == { e \in Entries : e.headline # << >> /\ e.headline[1] # "" }
            rule1 == /\ arg.article.link # ""
                     /\ \E e \in Entries : e.sourceUrl = << arg.article.link >>
            rule2 == \E e \in titled : NormalForm(e.headline[1]) = normalized
            rule3 == \E e \in titled :
                        FuzzyPair(normalized, NormalForm(e.headline[1]))
        IN  /\ res[2] <=> (rule1 \/ rule2 \/ rule3)
            /\ SameWhateverTheOrder

\* the first entry has enough words and does not match, the second matches
\* by the fuzzy rule alone
C9_Witness ==
    /\ phase = "checked"
    /\ arg.article = Candidate("Giant panda numbers fall", "u9")
    /\ arg.file = << ArchiveEntry(<<"Coral Reef Shows Record Recovery After Bleaching">>,
                                  <<"u1">>),
                     ArchiveEntry(<<"Giant panda numbers rise">>, <<"u3">>) >>
    /\ res[2] = TRUE

(***************************************************************************)
(* loadPublishedArticles on a file that is missing, does not parse, or has  *)
(* an entry whose reading throws                                           *)
(***************************************************************************)
LoadEntryPool ==
    { ArchiveEntry(<<"Solar Record!">>, <<"u9">>),
      ArchiveEntry(<<"Giant panda numbers rise">>, <<"u3">>),
      NullEntry }

LoadCandidatePool ==
    { Candidate("Wind farm opens", "u9"),
      Candidate("Solar record", "u1"),
      Candidate("Giant panda numbers fall", "u2"),
      Candidate("Wind farm opens", "u1") }

InitLoad ==
    /\ PipelineOff
    /\ phase = "disk"
    /\ arg \in [syntax : { "valid", "broken" },
                file : SeqsUpTo(LoadEntryPool, MaxEntries),
                article : LoadCandidatePool]
              \cup [syntax : { "missing", "noArticles" }, file : { << >> },
                    article : LoadCandidatePool]
    /\ res = << >>

\* const { publishedTitles, publishedUrls } = loadPublishedArticles()
ApplyReadArchive ==
    /\ phase = "disk"
    /\ res' = << readArchive(arg.syntax, arg.file) >>
    /\ phase' = "indexed"
    /\ UNCHANGED << arg, pipelineVars, siteVars >>

\* wasPublished(article, publishedTitles, publishedUrls) in the filter
ApplyArchiveFilter ==
    /\ phase = "indexed"
    /\ res' = << res[1], wasPublished(arg.article, res[1].publishedTitles,
                                      res[1].publishedUrls) >>
    /\ phase' = "filtered"
    /\ UNCHANGED << arg, pipelineVars, siteVars >>

NextLoad == ApplyReadArchive \/ ApplyArchiveFilter

SpecLoad == InitLoad /\ [][NextLoad]_vars

NothingLoaded == [publishedTitles |-> << >>, publishedUrls |-> << >>]

\* the file has an entry whose reading raises an error
RaisesWhileRead == arg.syntax = "valid" /\ \E e \in Range(arg.file) : isNull(e)

\* C11: when the archive file is missing, does not parse, or raises an error
\* while its entries are read, loadPublishedArticles returns two empty sets
\* and no candidate is dropped as published.
C11_MalformedReadsEmpty ==
    (/\ phase = "filtered"
     /\ \/ arg.syntax \in { "missing", "broken" }
        \/ RaisesWhileRead)
        => (res[1] = NothingLoaded /\ res[2] = FALSE)

\* the part of it the code keeps: a file that is missing or does not parse,
\* and a file whose first entry raises, give two empty sets
UnreadableArchiveReadsEmpty ==
    (/\ phase = "filtered"
     /\ \/ arg.syntax \in { "missing", "broken", "noArticles" }
        \/ arg.syntax = "valid" /\ arg.file # << >> /\ isNull(arg.file[1]))
        => (res[1] = NothingLoaded /\ res[2] = FALSE)

(***************************************************************************)
(* Normalisation of a raw item with missing fields, and the stages that     *)
(* read the candidate afterwards                                           *)
(***************************************************************************)
RawRssItems ==
    [title : { << >>, <<"">>, <<"Solar record">> },
     link : { << >>, <<"u1">> },
     contentSnippet : { << >>, <<"hope">> },
     content : { << >> },
     description : { << >>, <<"attack">> },
     pubDate : { << >>, <<"Tue, 30 Apr 2024 10:00:00 GMT">> },
     isoDate : { << >>, <<"2024-04-30T10:00:00.000Z">> }]

RawApiItems ==
    [title : { << >>, <<"Solar record">> },
     url : { << >>, <<"u1">> },
     description : { << >>, <<"attack">> },
     sourceName : { << >>, <<"Positive News">> },
     publishedAt : { << >>, <<"2024-04-30T10:00:00Z">> }]

NormalizeTimes == { "2024-05-01T06:00:00.000Z", "2024-05-02T06:00:00.000Z" }

InitNormalize ==
    /\ PipelineOff
    /\ phase = "raw"
    /\ arg \in [path : { "rss" }, item : RawRssItems, feed : { 3, 4 },
                now : NormalizeTimes]
              \cup [path : { "api" }, item : RawApiItems, feed : { 1 },
                    now : NormalizeTimes]
    /\ res = << >>

\* the object literal of the item loop
ApplyNormalize ==
    /\ phase = "raw"
    /\ res' = << IF arg.path = "rss"
                 THEN normalizeRssItem(arg.item, RSS_FEEDS[arg.feed], arg.now)
                 ELSE normalizeApiItem(arg.item, QUERIES[arg.feed].category,
                                       arg.now) >>
    /\ phase' = "candidate"
    /\ UNCHANGED << arg, pipelineVars, siteVars >>

\* the stages that read the candidate: scorePositivity, the key of the batch
\* deduplication, normalizeTitle in wasPublished
ApplyLaterStages ==
    /\ phase = "candidate"
    /\ res' = << res[1], [score |-> scorePositivity(res[1]),
                          key |-> dedupKey(res[1]),
                          normalizedTitle |-> normalizeTitle(res[1].title)] >>
    /\ phase' = "staged"
    /\ UNCHANGED << arg, pipelineVars, siteVars >>

NextNormalize == ApplyNormalize \/ ApplyLaterStages

SpecNormalize == InitNormalize /\ [][NextNormalize]_vars

Missing(field) == field = << >>

RawLink == IF arg.path = "rss" THEN arg.item.link ELSE arg.item.url

NoDescription ==
    IF arg.path = "rss"
    THEN Missing(arg.item.contentSnippet) /\ Missing(arg.item.content)
         /\ Missing(arg.item.description)
    ELSE Missing(arg.item.description)

NoPublishTime ==
    IF arg.path = "rss"
    THEN Missing(arg.item.pubDate) /\ Missing(arg.item.isoDate)
    ELSE Missing(arg.item.publishedAt)

\* C13: normalization gives a candidate for every raw item; a missing title,
\* link or description becomes the empty string and a missing publish time
\* the fetch time; scoring, the batch key and the title normalization then
\* give their values on it: the empty key and the empty normal form for a
\* missing title, and the trust bonus alone as score when title and
\* description are both missing.
C13_MissingFieldsDefaulted ==
    phase \in { "candidate", "staged" } =>
        /\ Missing(arg.item.title) => res[1].title = ""
        /\ Missing(RawLink) => res[1].link = ""
        /\ NoDescription => res[1].description = ""
        /\ NoPublishTime => res[1].pubDate = arg.now
        /\ phase = "staged" =>
               /\ Missing(arg.item.title) =>
                      res[2].key = "" /\ res[2].normalizedTitle = ""
               /\ (Missing(arg.item.title) /\ NoDescription) =>
                      res[2].score =
                          IF res[1].source \in { "Positive News", "Good News Network",
                                                 "Reasons to be Cheerful" }
                          THEN 5 ELSE 0

\* a search-API item with no field at all, through all the stages
C13_Witness ==
    /\ phase = "staged"
    /\ arg.path = "api"
    /\ arg.item = [title |-> << >>, url |-> << >>, description |-> << >>,
                   sourceName |-> << >>, publishedAt |-> << >>]
    /\ res[1].title = "" /\ res[1].link = "" /\ res[1].description = ""
    /\ res[1].pubDate = arg.now
    /\ res[2] = [score |-> 0, key |-> "", normalizedTitle |-> ""]

(***************************************************************************)
(* Batch deduplication of two wordings of one story                        *)
(***************************************************************************)
\* the candidates i < j of the batch are two wordings of a story: different
\* titles whose normal forms pass the fuzzy rule
Reworded(i, j) ==
    /\ i < j
    /\ arg[i].title # arg[j].title
    /\ FuzzyPair(normalizeTitle(arg[i].title), normalizeTitle(arg[j].title))

Survives(i) == \E k \in 1..Len(res[1]) : res[1][k] = arg[i]

\* C17, as the spec states it: of two candidates of a batch whose titles are
\* wordings of one story with at least 70% of the significant words shared,
\* only the first survives the batch deduplication.
C17_RewordedCollapse ==
    phase = "deduped" =>
        \A i, j \in 1..Len(arg) : Reworded(i, j) => ~Survives(j)

\* C17, amended: the batch deduplication does not look at the overlap of
\* words; the later of two such candidates survives unless an earlier
\* candidate has its key, the first 50 characters of the lower-cased title.
C17_RewordedSurvive ==
    phase = "deduped" =>
        \A i, j \in 1..Len(arg) :
            Reworded(i, j) =>
                (Survives(j) <=> ~ \E k \in 1..(j - 1) : KeyOf(arg[k]) = KeyOf(arg[j]))

\* the two wordings of the coral story, in one batch: both survive
C17_Witness ==
    /\ phase = "deduped"
    /\ arg = Titled(<< "Coral Reef Shows Record Recovery After Bleaching Event",
                       "Scientists Achieve Coral Reef Recovery Record After Bleaching" >>)
    /\ Reworded(1, 2)
    /\ res[1] = arg

(***************************************************************************)
(* generateSite (scripts/generate-site.js): the gate on the curated file,   *)
(* the list of articles it takes from it, generateArticlePages,            *)
(* updateArticleArchive and the updates of index.html and of the section   *)
(* pages.  An instant is an integer; of an archive entry the slug, the     *)
(* headline, the sourceUrl and archivedAt are kept, of an article page its *)
(* slug, its headline and the instant it was written, of index.html and    *)
(* of the section pages the instant they were last written.                *)
(***************************************************************************)
MaxRuns == 2      \* runs of generateSite
MaxCurated == 2   \* articles of a curated file

Archived(slug, headline, sourceUrl, archivedAt) ==
    [slug |-> slug, headline |-> headline, sourceUrl |-> sourceUrl,
     archivedAt |-> archivedAt]

SiteArchivePool ==
    { Archived("a", <<"Solar Record!">>, <<"u9">>, 1),
      Archived("b", <<"Giant panda numbers rise">>, <<"u3">>, 2) }

CuratedArticle(slug, headline, sourceUrl) ==
    [slug |-> slug, headline |-> headline, sourceUrl |-> sourceUrl]

CuratedArticlePool ==
    { CuratedArticle(<<"a">>, <<"Solar Record, again">>, <<"u1">>),  \* an archived slug
      CuratedArticle(<<"c">>, <<"Wind farm opens">>, << >>),
      CuratedArticle(<< >>, <<"No slug">>, <<"u2">>) }

\* data/curated-articles.json
Curated(publishedAt, autoPublished, articles) ==
    [publishedAt |-> publishedAt, autoPublished |-> autoPublished,
     allArticles |-> articles, homepage |-> << >>, hero |-> << >>,
     featured |-> << >>, more |-> << >>]

CuratedFiles ==
    { Curated(publishedAt, autoPublished, articles) :
          publishedAt \in { << >>, <<"2024-05-01T07:00:00.000Z">> },
          autoPublished \in BOOLEAN,
          articles \in SeqsUpTo(CuratedArticlePool, MaxCurated) }
    \cup
    { \* the homepage structure, without allArticles
      [publishedAt |-> << >>, autoPublished |-> TRUE, allArticles |-> << >>,
       homepage |-> << [hero |-> << CuratedArticle(<<"c">>, <<"Wind farm opens">>, << >>) >>,
                        featured |-> << >>] >>,
       hero |-> << >>, featured |-> << >>, more |-> << >>],
      \* the old structure at the root of the file
      [publishedAt |-> << >>, autoPublished |-> TRUE, allArticles |-> << >>,
       homepage |-> << >>, hero |-> << >>,
       featured |-> << CuratedArticle(<<"c">>, <<"Wind farm opens">>, << >>) >>,
       more |-> << CuratedArticle(<< >>, <<"No slug">>, <<"u2">>) >>] }

\* the file runCuration writes for the curated articles: generatedAt, homepage
\* (the hero, which is the first article, and the featured, which are the 14
\* after it), sections and allArticles; neither publishedAt nor autoPublished
runCurationOutput(articles) ==
    [publishedAt |-> << >>, autoPublished |-> FALSE, allArticles |-> articles,
     homepage |-> << [hero |-> IF Len(articles) = 0 THEN << >>
                               ELSE << articles[1] >>,
                      featured |-> SubSeq(articles, 2, Min(15, Len(articles)))] >>,
     hero |-> << >>, featured |-> << >>, more |-> << >>]

FreshCuratedFiles ==
    { runCurationOutput(articles) :
          articles \in SeqsUpTo(CuratedArticlePool, MaxCurated) }

\* the comparator of archive.articles.sort: by archivedAt, descending
compareArchivedAt(a, b) == b.archivedAt - a.archivedAt

\* archive.articles.sort(...): a stable sort
sortArchive(entries) ==
    LET n == Len(entries)
        place == [ i \in 1..n |->
                     1 + Cardinality({ j \in 1..n :
                             \/ compareArchivedAt(entries[j], entries[i]) < 0
                             \/ /\ compareArchivedAt(entries[j], entries[i]) = 0
                                /\ j < i }) ]
    IN  [ k \in 1..n |-> entries[CHOOSE i \in 1..n : place[i] = k] ]

\* the loop over the articles: one without slug and one whose slug the archive
\* had when the run began are skipped; the others are pushed, archivedAt being
\* the instant of the push: now for all of them, or now + k for the k-th when
\* the pushes of the run fall on different instants
RECURSIVE archiveLoop(_, _, _, _, _, _, _)
archiveLoop(articles, i, existingSlugs, entries, addedCount, now, spread) ==
    IF i > Len(articles) THEN entries
    ELSE IF ~Truthy(articles[i].slug) \/ articles[i].slug[1] \in existingSlugs
         THEN archiveLoop(articles, i + 1, existingSlugs, entries, addedCount,
                          now, spread)
         ELSE archiveLoop(articles, i + 1, existingSlugs,
                          Append(entries,
                                 [slug |-> articles[i].slug[1],
                                  headline |-> articles[i].headline,
                                  sourceUrl |-> articles[i].sourceUrl,
                                  archivedAt |-> IF spread THEN now + addedCount + 1
                                                 ELSE now]),
                          addedCount + 1, now, spread)

\* updateArticleArchive(articles) on the archive file (syntax, file): the file
\* it leaves, or threw when archive.articles.map throws (a parsed file without
\* articles, or with an entry that is null)
updateArticleArchive(syntax, file, articles, now, spread) ==
    IF \/ syntax = "noArticles"
       \/ syntax = "valid" /\ \E i \in 1..Len(file) : isNull(file[i])
    THEN [threw |-> TRUE, syntax |-> syntax, file |-> file]
    ELSE LET loaded == IF syntax = "valid" THEN file ELSE << >>
             existingSlugs == { loaded[i].slug : i \in 1..Len(loaded) }
         IN  [threw |-> FALSE, syntax |-> "valid",
              file |-> sortArchive(archiveLoop(articles, 1, existingSlugs,
                                               loaded, 0, now, spread))]

\* [...].filter(Boolean) on a field that holds an article or nothing
present(field) == field

\* the articles generateSite takes from the curated file
curatedArticles(curated) ==
    LET first == curated.allArticles
        second == IF Len(first) = 0 /\ curated.homepage # << >>
                  THEN present(curated.homepage[1].hero)
                           \o curated.homepage[1].featured
                  ELSE first
        third == IF Len(second) = 0
                 THEN present(curated.hero) \o curated.featured \o curated.more
                 ELSE second
    IN  third

\* the gate of generateSite: the curated file is still pending review
pendingReview_never(curated, force) == FALSE

pendingReview(curated, force) ==
    /\ ~Truthy(curated.publishedAt)
    /\ ~curated.autoPublished
    /\ ~force

\* generateArticlePages(articles) on the pages on disk: an article without slug
\* is skipped, the others are written to articles/<slug>.html, a page of that
\* name being overwritten (by the last article of the list that has the slug);
\* no file is removed
generateArticlePages_replaces(pages, articles, now) ==
    { [slug |-> articles[i].slug[1], headline |-> articles[i].headline,
       writtenAt |-> now] : i \in { j \in 1..Len(articles) : Truthy(articles[j].slug) } }

generateArticlePages(pages, articles, now) ==
    LET withSlug == { i \in 1..Len(articles) : Truthy(articles[i].slug) }
        slugs == { articles[i].slug[1] : i \in withSlug }
        lastOf(slug) == CHOOSE i \in withSlug :
                            /\ articles[i].slug[1] = slug
                            /\ \A j \in withSlug :
                                   articles[j].slug[1] = slug => j <= i
    IN  { page \in pages : page.slug \notin slugs }
          \cup { [slug |-> slug, headline |-> articles[lastOf(slug)].headline,
                  writtenAt |-> now] : slug \in slugs }

\* updateIndexHTML: the hero of the homepage
homepageHero(curated, articles) ==
    IF curated.homepage # << >> /\ curated.homepage[1].hero # << >>
    THEN curated.homepage[1].hero[1]
    ELSE IF curated.hero # << >> THEN curated.hero[1]
    ELSE articles[1]

\* updateIndexHTML(curated): index.html after the update
updateIndexHTML(curated, articles, now) ==
    [updatedAt |-> now, hero |-> homepageHero(curated, articles).headline]

\* the pages the earlier runs wrote for the entries of the archive
pagesOf(file) ==
    { [slug |-> file[i].slug, headline |-> file[i].headline,
       writtenAt |-> file[i].archivedAt] : i \in 1..Len(file) }

InitSite ==
    /\ pc = "site"
    /\ \/ /\ archiveSyntax \in { "valid", "broken" }
          /\ archiveFile \in { sortArchive(file) :
                                   file \in SeqsUpTo(SiteArchivePool, MaxArchive) }
       \/ /\ archiveSyntax \in { "missing", "noArticles" }
          /\ archiveFile = << >>
    /\ siteRuns = 0
    /\ siteResult = << >>
    /\ curatedFile \in { << >> } \cup { << curated >> :
                             curated \in CuratedFiles \cup FreshCuratedFiles }
    /\ articlePages = pagesOf(archiveFile)
    /\ indexPage = NoIndexUpdate
    /\ sectionPages = 0
    /\ publishedTitles = << >>
    /\ publishedUrls = << >>
    /\ feedIdx = 1
    /\ queryIdx = 1
    /\ pending = << >>
    /\ fetched = 0
    /\ rssArticles = << >>
    /\ newsApiArticles = << >>
    /\ lastItem = << >>
    /\ sourceStart = 0
    /\ lastFailure = << >>
    /\ allArticles = << >>
    /\ uniqueArticles = << >>
    /\ freshArticles = << >>
    /\ topArticles = << >>
    /\ rawFile = << >>
    /\ HarnessOff

SiteFrame ==
    UNCHANGED << pc, publishedTitles, publishedUrls, feedIdx, queryIdx, pending,
                 fetched, rssArticles, newsApiArticles, lastItem, sourceStart,
                 lastFailure, allArticles, uniqueArticles, freshArticles,
                 topArticles, rawFile, curatedFile, harnessVars >>

\* generateSite: there is no curated file, process.exit(1)
SiteNoCurated ==
    /\ pc = "site"
    /\ curatedFile = << >>
    /\ siteRuns < MaxRuns
    /\ siteRuns' = siteRuns + 1
    /\ siteResult' = << [outcome |-> "exit", articlesGenerated |-> 0,
                         force |-> FALSE] >>
    /\ UNCHANGED << archiveFile, archiveSyntax, articlePages, indexPage,
                    sectionPages >>
    /\ SiteFrame

\* how a run that writes nothing ends
SiteLeaves(outcome, curated, force) ==
    /\ siteResult' = << [outcome |-> outcome, articlesGenerated |-> 0,
                         force |-> force] >>
    /\ UNCHANGED << archiveFile, archiveSyntax, articlePages, indexPage,
                    sectionPages >>

\* generateSite on the curated file; force is FORCE_GENERATE, spread says whether
\* the pushes of the run fall on different instants.  The article pages are
\* written before updateArticleArchive is called: when that call throws, the
\* pages are on disk and neither the archive nor index.html nor a section
\* page is written.
SiteGenerateFrom(curated, force, spread) ==
    /\ pc = "site"
    /\ siteRuns < MaxRuns
    /\ siteRuns' = siteRuns + 1
    /\    LET articles == curatedArticles(curated)
              now == 10 * (siteRuns + 1)
              updated == updateArticleArchive(archiveSyntax, archiveFile,
                                              articles, now, spread)
          IN  IF pendingReview(curated, force)
              THEN SiteLeaves("skipped", curated, force)
              ELSE IF Len(articles) = 0
              THEN SiteLeaves("empty", curated, force)
              ELSE /\ articlePages' = generateArticlePages(articlePages, articles, now)
                   /\ IF updated.threw
                      THEN /\ siteResult' =
                                << [outcome |-> "threw", articlesGenerated |-> 0,
                                    force |-> force] >>
                           /\ UNCHANGED << archiveFile, archiveSyntax, indexPage,
                                           sectionPages >>
                      ELSE /\ siteResult' =
                                << [outcome |-> "generated",
                                    articlesGenerated |-> Len(articles),
                                    force |-> force] >>
                           /\ archiveFile' = updated.file
                           /\ archiveSyntax' = updated.syntax
                           /\ indexPage' = updateIndexHTML(curated, articles, now)
                           /\ sectionPages' = now
    /\ SiteFrame

\* generateSite on the curated file on disk
SiteGenerate ==
    /\ curatedFile # << >>
    /\ \E force \in BOOLEAN, spread \in BOOLEAN :
          SiteGenerateFrom(curatedFile[1], force, spread)

NextSite == SiteNoCurated \/ SiteGenerate

SpecSite == InitSite /\ [][NextSite]_vars

\* C20: whatever entry the archive file holds before a run of generateSite,
\* the archive file holds it after the run, a file that does not parse
\* included.
C20_AppendOnly ==
    [][\A i \in 1..Len(archiveFile) :
           \E j \in 1..Len(archiveFile') : archiveFile'[j] = archiveFile[i]]_vars

\* the part of it the code keeps: a run that starts with a file it can parse,
\* or without a file, keeps every entry
ParsedArchiveAppendOnly ==
    [][archiveSyntax # "broken" =>
           \A i \in 1..Len(archiveFile) :
               \E j \in 1..Len(archiveFile') : archiveFile'[j] = archiveFile[i]]_vars

\* C21: a run of generateSite on a curated file that carries neither
\* publishedAt nor autoPublished, FORCE_GENERATE not being set, returns skipped
\* with 0 articles generated and writes no article page, no archive entry,
\* neither index.html nor a section page; the file runCuration has just
\* written is such a file.
C21_OnlyReviewedPublished ==
    [][(/\ siteRuns' = siteRuns + 1
        /\ curatedFile # << >>
        /\ ~siteResult'[1].force
        /\ \/ /\ ~Truthy(curatedFile[1].publishedAt)
              /\ ~curatedFile[1].autoPublished
           \/ curatedFile[1] \in FreshCuratedFiles)
       => /\ siteResult'[1].outcome = "skipped"
          /\ siteResult'[1].articlesGenerated = 0
          /\ UNCHANGED << articlePages, archiveFile, archiveSyntax, indexPage,
                          sectionPages >>]_vars

\* a run on the file runCuration wrote, with articles in it, was skipped
C21_Witness ==
    /\ siteRuns >= 1
    /\ siteResult[1].outcome = "skipped"
    /\ curatedFile[1] \in FreshCuratedFiles
    /\ Len(curatedFile[1].allArticles) > 0
    /\ articlePages # { }
    /\ indexPage = NoIndexUpdate

\* C22: a page articles/<slug>.html that is on disk before a run of
\* generateSite is on disk after it, whether or not the curated set of the run
\* holds an article of that slug.
C22_PagesPermanent ==
    [][\A page \in articlePages :
           \E kept \in articlePages' : kept.slug = page.slug]_vars

\* a run generated pages, and the page an earlier run wrote for an article
\* that the curated set of this run does not hold is still there
C22_Witness ==
    /\ siteRuns >= 1
    /\ siteResult[1].outcome = "generated"
    /\ \E old \in articlePages, new \in articlePages :
          /\ old.writtenAt < 10
          /\ new.writtenAt = 10 * siteRuns
          /\ \A k \in 1..Len(curatedFile[1].allArticles) :
                 curatedFile[1].allArticles[k].slug # << old.slug >>

(***************************************************************************)
(* The daily run: runPipeline (scripts/daily-pipeline.js), whose third     *)
(* step spawns the review server, and runDailyUpdate (PROCESS.md), whose   *)
(* third step is generateSite.  arg is the script; res holds the log of    *)
(* the steps (started, returned, threw), the index of the step awaited,    *)
(* what the steps returned and the exit code.  What follows an await runs  *)
(* in one piece up to the next await: the return of a step and the start   *)
(* of the next are one action, and so are a throw and the catch.           *)
(***************************************************************************)
MaxDaily == 4   \* raw articles the fetch step may return

SCRIPTS == { "runPipeline", "runDailyUpdate" }

\* the steps in the order of the try block
STEPS_curateFirst(script) ==
    << "curate", "fetch", IF script = "runPipeline" THEN "review" ELSE "site" >>

STEPS(script) ==
    << "fetch", "curate", IF script = "runPipeline" THEN "review" ELSE "site" >>

Event(step, what) == [step |-> step, what |-> what]

\* catch (error) { console.error(...); process.exit(1) }
catchError(r, step) ==
    [r EXCEPT !.log = Append(@, Event(step, "threw")), !.exitCode = << 1 >>]

InitDaily ==
    /\ PipelineOff
    /\ phase = "entry"
    /\ arg \in SCRIPTS
    /\ res = [log |-> << >>, idx |-> 0, raw |-> 0, curated |-> 0,
              generated |-> 0, browser |-> FALSE, exitCode |-> << >>]

DailyFrame == UNCHANGED << arg, pipelineVars, siteVars >>

\* the script starts: await fetchAllNews()
DailyBegin ==
    /\ phase = "entry"
    /\ phase' = "await"
    /\ res' = [res EXCEPT !.log = << Event(STEPS(arg)[1], "started") >>,
                          !.idx = 1]
    /\ DailyFrame

\* fetchAllNews resolves with the raw articles: await runCuration()
DailyFetchReturns ==
    /\ phase = "await"
    /\ res.idx = 1
    /\ \E n \in 0..MaxDaily :
          res' = [res EXCEPT !.log = @ \o << Event(STEPS(arg)[1], "returned"),
                                            Event(STEPS(arg)[2], "started") >>,
                            !.idx = 2, !.raw = n]
    /\ UNCHANGED phase
    /\ DailyFrame

\* runCuration resolves in runPipeline: spawn of the review server, which
\* returns the child, and the timer for the browser is set
DailyCurateReturnsSpawn ==
    /\ phase = "await"
    /\ res.idx = 2
    /\ arg = "runPipeline"
    /\ \E k \in 0..res.raw :
          res' = [res EXCEPT !.log = @ \o << Event(STEPS(arg)[2], "returned"),
                                            Event(STEPS(arg)[3], "started"),
                                            Event(STEPS(arg)[3], "returned") >>,
                            !.idx = 3, !.curated = k]
    /\ phase' = "complete"
    /\ DailyFrame

\* runCuration resolves in runPipeline and spawn throws
DailyCurateReturnsSpawnThrows ==
    /\ phase = "await"
    /\ res.idx = 2
    /\ arg = "runPipeline"
    /\ \E k \in 0..res.raw :
          res' = catchError([res EXCEPT
                                !.log = @ \o << Event(STEPS(arg)[2], "returned"),
                                                Event(STEPS(arg)[3], "started") >>,
                                !.idx = 3, !.curated = k],
                            STEPS(arg)[3])
    /\ phase' = "exit"
    /\ DailyFrame

\* runCuration resolves in runDailyUpdate: await generateSite()
DailyCurateReturnsGenerate ==
    /\ phase = "await"
    /\ res.idx = 2
    /\ arg = "runDailyUpdate"
    /\ \E k \in 0..res.raw :
          res' = [res EXCEPT !.log = @ \o << Event(STEPS(arg)[2], "returned"),
                                            Event(STEPS(arg)[3], "started") >>,
                            !.idx = 3, !.curated = k]
    /\ UNCHANGED phase
    /\ DailyFrame

\* generateSite resolves, skipped or with the pages of the curated articles
DailySiteReturns ==
    /\ phase = "await"
    /\ res.idx = 3
    /\ \E g \in { 0, res.curated } :
          res' = [res EXCEPT !.log = Append(@, Event(STEPS(arg)[3], "returned")),
                            !.generated = g]
    /\ phase' = "complete"
    /\ DailyFrame

\* the step awaited rejects: the catch runs
DailyStepThrows ==
    /\ phase = "await"
    /\ res' = catchError(res, STEPS(arg)[res.idx])
    /\ phase' = "exit"
    /\ DailyFrame

\* the timer of runPipeline fires: the browser is opened
DailyOpenBrowser ==
    /\ phase = "complete"
    /\ arg = "runPipeline"
    /\ ~res.browser
    /\ res' = [res EXCEPT !.browser = TRUE]
    /\ UNCHANGED phase
    /\ DailyFrame

NextDaily ==
    \/ DailyBegin
    \/ DailyFetchReturns
    \/ DailyCurateReturnsSpawn
    \/ DailyCurateReturnsSpawnThrows
    \/ DailyCurateReturnsGenerate
    \/ DailySiteReturns
    \/ DailyStepThrows
    \/ DailyOpenBrowser

SpecDaily == InitDaily /\ [][NextDaily]_vars

\* the events of a run in which no step throws
FullRun(third) ==
    << Event("fetch", "started"), Event("fetch", "returned"),
       Event("curate", "started"), Event("curate", "returned"),
       Event(third, "started"), Event(third, "returned") >>

IsPrefix(short, long) ==
    Len(short) <= Len(long) /\ short = SubSeq(long, 1, Len(short))

Threw == { i \in 1..Len(res.log) : res.log[i].what = "threw" }

\* C23: the steps run one after the other: curation is started only after the
\* fetch step has returned, the third step (generateSite, or the spawn of the
\* review server) only after curation has returned; when a step throws, no
\* step is started after it and the process exits with code 1.
C23_StepsInSequence ==
    LET third == IF arg = "runPipeline" THEN "review" ELSE "site"
        n == Len(res.log)
    IN  /\ \/ IsPrefix(res.log, FullRun(third))
           \/ /\ n >= 2
              /\ IsPrefix(SubSeq(res.log, 1, n - 1), FullRun(third))
              /\ res.log[n - 1].what = "started"
              /\ res.log[n] = Event(res.log[n - 1].step, "threw")
        /\ Threw # { } => phase = "exit" /\ res.exitCode = << 1 >>
        /\ phase = "exit" => Threw # { }

\* curation threw after the fetch step had returned articles
C23_Witness ==
    /\ phase = "exit"
    /\ res.raw > 0
    /\ res.log = << Event("fetch", "started"), Event("fetch", "returned"),
                    Event("curate", "started"), Event("curate", "threw") >>

\* a run that went through its three steps
C23_WitnessComplete ==
    /\ phase = "complete"
    /\ arg = "runDailyUpdate"
    /\ res.generated > 0
    /\ Len(res.log) = 6

(***************************************************************************)
(* Curation (scripts/curate-with-ai.js): curateAndCategorize, from the     *)
(* split into batches to the hero and featured flags, and the output       *)
(* runCuration organizes from the curated articles.  A raw article is its  *)
(* position in raw-articles.json; a curated article is the raw article it  *)
(* was selected from and its two flags (FALSE is the flag not set).  What  *)
(* a batch gives is the choice of the service: the call throws, the        *)
(* response has no JSON, or it selects some articles of the batch.  The    *)
(* steps of runCuration between the flags and the output (slug, author,    *)
(* image, full content, fact-check) assign other fields of the articles.   *)
(***************************************************************************)
MaxRawCount == 41   \* raw articles in raw-articles.json

BATCH_SIZE == 20
HERO_COUNT == 1
FEATURED_END == 15   \* allCurated.slice(1, 15)
FEATURED_LIMIT == 14 \* .slice(0, 14)

\* rawArticles.slice(i, i + BATCH_SIZE) for i = 0, BATCH_SIZE, ...
splitBatches_fullOnly(rawArticles) ==
    [ b \in 1..(Len(rawArticles) \div BATCH_SIZE) |->
        SubSeq(rawArticles, (b - 1) * BATCH_SIZE + 1, b * BATCH_SIZE) ]

splitBatches(rawArticles) ==
    [ b \in 1..((Len(rawArticles) + BATCH_SIZE - 1) \div BATCH_SIZE) |->
        SubSeq(rawArticles, (b - 1) * BATCH_SIZE + 1,
               Min(b * BATCH_SIZE, Len(rawArticles))) ]

\* an article of result.articles
Selected(raw) ==
    [raw |-> raw, isHomepageHero |-> FALSE, isHomepageFeatured |-> FALSE]

\* what the response may select from a batch: all of it, its first article,
\* every second article, nothing
Selections(batch) ==
    { [ k \in 1..Len(batch) |-> Selected(batch[k]) ],
      [ k \in 1..Min(1, Len(batch)) |-> Selected(batch[k]) ],
      [ k \in 1..(Len(batch) \div 2) |-> Selected(batch[2 * k]) ],
      << >> }

\* allCurated[0].isHomepageHero = true;
\* allCurated.slice(1, 15).forEach(a => a.isHomepageFeatured = true)
selectHeroAndFeatured_all(allCurated) ==
    [ k \in 1..Len(allCurated) |->
        IF k <= HERO_COUNT THEN [allCurated[k] EXCEPT !.isHomepageHero = TRUE]
        ELSE [allCurated[k] EXCEPT !.isHomepageFeatured = TRUE] ]

selectHeroAndFeatured(allCurated) ==
    [ k \in 1..Len(allCurated) |->
        IF k <= HERO_COUNT THEN [allCurated[k] EXCEPT !.isHomepageHero = TRUE]
        ELSE IF k <= FEATURED_END
             THEN [allCurated[k] EXCEPT !.isHomepageFeatured = TRUE]
             ELSE allCurated[k] ]

isHero(article) == article.isHomepageHero
isFeatured(article) == article.isHomepageFeatured

\* homepage of the output: hero is find(isHomepageHero) || curatedArticles[0],
\* featured is filter(isHomepageFeatured).slice(0, 14)
organizeHomepage(curated) ==
    LET heroes == SelectSeq(curated, isHero)
        featured == SelectSeq(curated, isFeatured)
    IN  [hero |-> IF Len(heroes) > 0 THEN << heroes[1] >>
                  ELSE IF Len(curated) > 0 THEN << curated[1] >>
                  ELSE << >>,
         featured |-> SubSeq(featured, 1, Min(FEATURED_LIMIT, Len(featured)))]

InitCurate ==
    /\ PipelineOff
    /\ phase = "loaded"
    /\ arg \in { [ k \in 1..n |-> k ] : n \in 0..MaxRawCount }
    /\ res = [batches |-> << >>, i |-> 0, outcomes |-> << >>,
              allCurated |-> << >>, output |-> << >>]

CurateFrame == UNCHANGED << arg, pipelineVars, siteVars >>

\* after the loop over the batches: the flags
afterBatches(r) == [r EXCEPT !.allCurated = selectHeroAndFeatured(@)]

\* curateAndCategorize up to the first await: the split, and the call for the
\* first batch; without a raw article there is no batch and the flags follow
CurateSplit ==
    /\ phase = "loaded"
    /\ LET batches == splitBatches(arg)
       IN  IF Len(batches) = 0
           THEN /\ res' = afterBatches([res EXCEPT !.batches = batches])
                /\ phase' = "flagged"
           ELSE /\ res' = [res EXCEPT !.batches = batches, !.i = 1]
                /\ phase' = "batch"
    /\ CurateFrame

\* the loop goes on after batch i: the next batch, or the flags after the last
batchDone(r, outcome, batchResults) ==
    LET pushed == [r EXCEPT !.outcomes = Append(@, [kind |-> outcome,
                                                   selected |-> batchResults]),
                            !.allCurated = @ \o batchResults]
    IN  IF r.i < Len(r.batches) THEN [pushed EXCEPT !.i = r.i + 1]
        ELSE afterBatches(pushed)

CurateBatchNext ==
    phase' = IF res.i < Len(res.batches) THEN "batch" ELSE "flagged"

\* curateBatch returns result.articles
CurateBatchReturns ==
    /\ phase = "batch"
    /\ \E batchResults \in Selections(res.batches[res.i]) :
          res' = batchDone(res, "returned", batchResults)
    /\ CurateBatchNext
    /\ CurateFrame

\* curateBatch finds no JSON in the response and returns []
CurateBatchNoJson ==
    /\ phase = "batch"
    /\ res' = batchDone(res, "noJson", << >>)
    /\ CurateBatchNext
    /\ CurateFrame

\* curateBatch throws (the call, or JSON.parse): the catch of the loop logs
CurateBatchThrows ==
    /\ phase = "batch"
    /\ res' = batchDone(res, "threw", << >>)
    /\ CurateBatchNext
    /\ CurateFrame

\* runCuration organizes the output
CurateOrganize ==
    /\ phase = "flagged"
    /\ res' = [res EXCEPT !.output = << [homepage |-> organizeHomepage(res.allCurated),
                                        allArticles |-> res.allCurated] >>]
    /\ phase' = "written"
    /\ CurateFrame

NextCurate ==
    \/ CurateSplit
    \/ CurateBatchReturns
    \/ CurateBatchNoJson
    \/ CurateBatchThrows
    \/ CurateOrganize

SpecCurate == InitCurate /\ [][NextCurate]_vars

Flagged(test(_)) == { k \in 1..Len(res.allCurated) : test(res.allCurated[k]) }

RECURSIVE Flatten(_)
Flatten(seqs) ==
    IF Len(seqs) = 0 THEN << >>
    ELSE Flatten(SubSeq(seqs, 1, Len(seqs) - 1)) \o seqs[Len(seqs)]

RawOf(curated) == [ k \in 1..Len(curated) |-> curated[k].raw ]

\* C26: the batches are consecutive slices of at most 20 raw articles that
\* put together give the raw articles, each once and in their order; every
\* batch is processed whether or not an earlier one threw, and the curated
\* articles are those selected from the batches that returned, in order.
C26_BatchesCoverAndSurvive ==
    phase # "loaded"
    => /\ Flatten(res.batches) = arg
       /\ \A b \in 1..Len(res.batches) :
              Len(res.batches[b]) >= 1 /\ Len(res.batches[b]) <= 20
       /\ Len(res.outcomes) = IF phase = "batch" THEN res.i - 1
                              ELSE Len(res.batches)
       /\ RawOf(res.allCurated)
            = RawOf(Flatten([ j \in 1..Len(res.outcomes) |->
                                res.outcomes[j].selected ]))
       /\ \A j \in 1..Len(res.outcomes) :
              res.outcomes[j].kind = "threw" => res.outcomes[j].selected = << >>

\* the second of three batches threw: the 20 articles of the first and the
\* one of the third are curated
C26_Witness ==
    /\ phase = "written"
    /\ Len(arg) = 41
    /\ Len(res.outcomes) = 3
    /\ res.outcomes[2].kind = "threw"
    /\ RawOf(res.allCurated) = [ k \in 1..21 |-> IF k <= 20 THEN k ELSE 41 ]

(***************************************************************************)
(* callWithRetry(fn, maxRetries = 3) (scripts/curate-with-ai.js).  arg is  *)
(* the maxRetries passed, << >> when it is left out; res holds attempt,    *)
(* the number of invocations of fn, the values fn resolved with, the       *)
(* statuses of the errors it rejected with, the last wait, what was        *)
(* returned and what was thrown.  What fn does is the choice of the        *)
(* service called: it resolves with a response or rejects with an error.   *)
(***************************************************************************)
MaxRetriesArg == 5   \* the largest maxRetries passed

DEFAULT_MAX_RETRIES == 3
RATE_LIMITED == 429
WAIT_STEP == 60000
WAIT_LIMIT == 120000

\* the status of an error; 0 is an error without status
ErrorStatuses == { RATE_LIMITED, 500, 529, 0 }

Responses == { "response 1", "response 2" }

maxRetriesOf(given) == IF given = << >> THEN DEFAULT_MAX_RETRIES ELSE given[1]

\* error.status === 429 && attempt < maxRetries
shouldRetry_anyError(status, attempt, maxRetries) == attempt < maxRetries

shouldRetry(status, attempt, maxRetries) ==
    status = RATE_LIMITED /\ attempt < maxRetries

\* Math.min(60000 * attempt, 120000)
waitTime(attempt) == Min(WAIT_STEP * attempt, WAIT_LIMIT)

InitRetry ==
    /\ PipelineOff
    /\ phase = "entry"
    /\ arg \in { << >> } \cup { << m >> : m \in 0..MaxRetriesArg }
    /\ res = [attempt |-> 0, calls |-> 0, resolved |-> << >>, errors |-> << >>,
              wait |-> 0, returned |-> << >>, thrown |-> << >>]

RetryFrame == UNCHANGED << arg, pipelineVars, siteVars >>

\* the loop starts: fn is invoked, or, with maxRetries below 1, the function
\* returns undefined
RetryEnter ==
    /\ phase = "entry"
    /\ IF 1 <= maxRetriesOf(arg)
       THEN /\ res' = [res EXCEPT !.attempt = 1, !.calls = 1]
            /\ phase' = "call"
       ELSE /\ res' = [res EXCEPT !.attempt = 1]
            /\ phase' = "returned"
    /\ RetryFrame

\* return await fn()
RetryFnResolves ==
    /\ phase = "call"
    /\ \E response \in Responses :
          res' = [res EXCEPT !.resolved = Append(@, response),
                            !.returned = << response >>]
    /\ phase' = "returned"
    /\ RetryFrame

\* fn rejects: the catch waits, or throws the error
RetryFnRejects ==
    /\ phase = "call"
    /\ \E status \in ErrorStatuses :
          IF shouldRetry(status, res.attempt, maxRetriesOf(arg))
          THEN /\ res' = [res EXCEPT !.errors = Append(@, status),
                                     !.wait = waitTime(res.attempt)]
               /\ phase' = "sleep"
          ELSE /\ res' = [res EXCEPT !.errors = Append(@, status),
                                     !.thrown = << status >>]
               /\ phase' = "threw"
    /\ RetryFrame

\* sleep(waitTime) is over: attempt++, and fn is invoked again
RetryAfterSleep ==
    /\ phase = "sleep"
    /\ IF res.attempt + 1 <= maxRetriesOf(arg)
       THEN /\ res' = [res EXCEPT !.attempt = @ + 1, !.calls = @ + 1]
            /\ phase' = "call"
       ELSE /\ res' = [res EXCEPT !.attempt = @ + 1]
            /\ phase' = "returned"
    /\ RetryFrame

NextRetry ==
    \/ RetryEnter
    \/ RetryFnResolves
    \/ RetryFnRejects
    \/ RetryAfterSleep

SpecRetry == InitRetry /\ [][NextRetry]_vars

\* every invocation of fn settles and every timer fires
SpecRetryLive == SpecRetry /\ WF_vars(NextRetry)

RetryOver == phase \in { "returned", "threw" }

\* what holds of the invocations at every moment
RetryBounded ==
    LET maxRetries == maxRetriesOf(arg)
        n == Len(res.errors)
    IN  /\ res.calls <= maxRetries
        /\ res.calls = n + Len(res.resolved) + (IF phase = "call" THEN 1 ELSE 0)
        /\ Len(res.resolved) <= 1
        /\ \A k \in 1..(n - 1) : res.errors[k] = 429
        /\ res.resolved # << >> => phase = "returned" /\ res.returned = << res.resolved[1] >>
        /\ phase \in { "call", "sleep" } => \A k \in 1..n : res.errors[k] = 429
        /\ phase = "sleep" => res.calls < maxRetries
        /\ phase = "threw"
           => /\ n >= 1
              /\ res.thrown = << res.errors[n] >>
              /\ res.errors[n] = 429 => res.calls = maxRetries
        /\ (n >= 1 /\ res.errors[n] # 429) => phase = "threw"
        /\ (n >= 1 /\ res.calls = maxRetries /\ res.resolved = << >>
               /\ phase # "call") => phase = "threw"

\* C25: callWithRetry comes to an end, having invoked fn at most maxRetries
\* times; it returns what the first invocation that resolves gives; fn is
\* invoked again only after an error of status 429 with attempts left; an
\* error of another status, and a 429 on the last attempt, is thrown with no
\* further invocation.
C25_RetryTerminates == []RetryBounded /\ <>RetryOver

\* two 429 and then a response, with the default maxRetries
C25_Witness ==
    /\ arg = << >>
    /\ phase = "returned"
    /\ res.calls = 3
    /\ res.errors = << 429, 429 >>
    /\ res.wait = 120000
    /\ res.returned = << "response 2" >>

\* 429 on the last of three attempts
C25_WitnessLast ==
    /\ arg = << >>
    /\ phase = "threw"
    /\ res.errors = << 429, 429, 429 >>

(***************************************************************************)
(* The fact-check loop of runCuration and factCheckArticle.  arg is the    *)
(* number of curated articles; res holds the articles, each with the       *)
(* response its fact-check call got, its factCheck and its factCheckFailed *)
(* flag (FALSE is the flag not set).  A response is the choice of the      *)
(* service: the call raises, the text has no JSON, the JSON does not       *)
(* parse, or it parses to an object, whose fields passed and issues may be *)
(* missing.                                                                *)
(***************************************************************************)
MaxChecked == 3   \* curated articles that are fact-checked

\* the object a response parses to
Verdict(passed, issues) ==
    [passed |-> passed, issues |-> issues, confidence |-> "high",
     summary |-> "checked"]

FactCheckResponses ==
    { [kind |-> "raises"], [kind |-> "noJson"], [kind |-> "badJson"] }
    \cup { [kind |-> "json", result |-> Verdict(passed, issues)] :
               passed \in { << TRUE >>, << FALSE >>, << >> },
               issues \in { << << "a number differs" >> >>, << << >> >>, << >> } }

\* the two objects factCheckArticle makes itself
CouldNotParse ==
    [passed |-> << TRUE >>, issues |-> << << >> >>, confidence |-> "low",
     summary |-> "Could not parse fact-check response"]

DefaultingToPass ==
    [passed |-> << TRUE >>, issues |-> << << >> >>, confidence |-> "low",
     summary |-> "Fact-check failed, defaulting to pass"]

\* !x for a field that is missing, true or false
notTruthy(field) == field = << >> \/ field = << FALSE >>

\* factCheckArticle(article), given the response to its call: an error of the
\* call, of JSON.parse and of result.issues.join (issues missing, on the
\* branch that logs the issues) ends in the catch
factCheckArticle_failsClosed(response) ==
    IF response.kind = "json" THEN response.result
    ELSE [DefaultingToPass EXCEPT !.passed = << FALSE >>]

factCheckArticle(response) ==
    IF response.kind \in { "raises", "badJson" } THEN DefaultingToPass
    ELSE IF response.kind = "noJson" THEN CouldNotParse
    ELSE IF notTruthy(response.result.passed) /\ response.result.issues = << >>
         THEN DefaultingToPass
         ELSE response.result

InitFactCheck ==
    /\ PipelineOff
    /\ phase = "checking"
    /\ arg \in 0..MaxChecked
    /\ res = [i |-> 1, articles |-> [ k \in 1..arg |->
                  [response |-> << >>, factCheck |-> << >>,
                   factCheckFailed |-> FALSE] ]]

\* one turn of the loop: article.factCheck = await factCheckArticle(article),
\* and the flag when !factCheck.passed
FactCheckStep ==
    /\ phase = "checking"
    /\ res.i <= arg
    /\ \E response \in FactCheckResponses :
          LET factCheck == factCheckArticle(response)
          IN  res' = [res EXCEPT !.i = @ + 1,
                                !.articles[res.i] =
                                    [response |-> << response >>,
                                     factCheck |-> << factCheck >>,
                                     factCheckFailed |-> notTruthy(factCheck.passed)]]
    /\ UNCHANGED << phase, arg, pipelineVars, siteVars >>

\* the loop is over: the summary is logged
FactCheckSummary ==
    /\ phase = "checking"
    /\ res.i > arg
    /\ phase' = "checked"
    /\ UNCHANGED << res, arg, pipelineVars, siteVars >>

NextFactCheck == FactCheckStep \/ FactCheckSummary

SpecFactCheck == InitFactCheck /\ [][NextFactCheck]_vars

\* every article has a result, and a call that raised or a response without
\* JSON gave passed = true with low confidence and no flag
ResultForEach ==
    \A k \in 1..arg :
        LET article == res.articles[k]
        IN  /\ article.factCheck # << >>
            /\ article.response[1].kind \in { "raises", "noJson" }
               => /\ article.factCheck[1].passed = << TRUE >>
                  /\ article.factCheck[1].confidence = "low"
                  /\ ~article.factCheckFailed

\* C27 as stated: after the fact-check step every article has a factCheck, an
\* article is flagged factCheckFailed if and only if passed of its factCheck
\* is false, and a call that raised or a response without JSON gives passed =
\* true, low confidence, no flag.
C27_FlaggedIffFalse ==
    phase = "checked"
    => /\ ResultForEach
       /\ \A k \in 1..arg :
              res.articles[k].factCheckFailed
                  <=> res.articles[k].factCheck[1].passed = << FALSE >>

\* C27, amended: an article is flagged factCheckFailed if and only if passed of
\* its factCheck is not true, that is false or missing; the rest as stated.
C27_FlaggedIffNotPassed ==
    phase = "checked"
    => /\ ResultForEach
       /\ \A k \in 1..arg :
              res.articles[k].factCheckFailed
                  <=> res.articles[k].factCheck[1].passed # << TRUE >>

\* one call raised, one response said passed: false, one had no passed
C27_Witness ==
    /\ phase = "checked"
    /\ arg = 3
    /\ res.articles[1].response[1].kind = "raises"
    /\ res.articles[2].factCheck[1].passed = << FALSE >>
    /\ res.articles[2].factCheckFailed
    /\ res.articles[3].factCheck[1].passed = << >>
    /\ res.articles[3].factCheckFailed

(***************************************************************************)
(* A run of generateSite followed by a run of fetchAllNews (the one with   *)
(* the archive filter) on the archive the first has written.               *)
(***************************************************************************)
\* the curated file of the run, a published one: an article without source
\* URL and one of source URL u1, which is the link of an item of the feeds
PublishedFile ==
    Curated(<<"2024-05-01T07:00:00.000Z">>, FALSE,
            << CuratedArticle(<<"c">>, <<"Wind farm opens">>, << >>),
               CuratedArticle(<<"a">>, <<"Solar Record, again">>, <<"u1">>) >>)

\* the archive before the run: none, or one with an entry of another slug
InitRepublish ==
    /\ InitSite
    /\ curatedFile = << PublishedFile >>
    /\ \/ archiveSyntax = "missing"
       \/ /\ archiveSyntax = "valid"
          /\ archiveFile = << Archived("b", <<"Giant panda numbers rise">>,
                                       <<"u3">>, 2) >>

\* the run of generateSite
RepublishGenerate ==
    /\ siteRuns = 0
    /\ SiteGenerateFrom(curatedFile[1], FALSE, TRUE)

\* fetchAllNews is started after a run that has written the archive
RepublishFetchStarts ==
    /\ pc = "site"
    /\ siteRuns = 1
    /\ siteResult[1].outcome = "generated"
    /\ pc' = "load"
    /\ UNCHANGED << archiveFile, archiveSyntax, publishedTitles, publishedUrls,
                    feedIdx, queryIdx, pending, fetched, rssArticles,
                    newsApiArticles, lastItem, sourceStart, lastFailure,
                    allArticles, uniqueArticles, freshArticles, topArticles,
                    rawFile, siteVars, harnessVars >>

NextRepublish == RepublishGenerate \/ RepublishFetchStarts \/ Next

SpecRepublish == InitRepublish /\ [][NextRepublish]_vars

\* the source URLs of the entries the run of generateSite has put into the archive
PutByRun ==
    { archiveFile[k].sourceUrl[1] :
          k \in { j \in 1..Len(archiveFile) :
                     /\ archiveFile[j].archivedAt >= 10
                     /\ Truthy(archiveFile[j].sourceUrl) } }

Links(articles) == { articles[k].link : k \in 1..Len(articles) }

\* C28: after a run of generateSite has put an article of source URL u (not
\* empty) into the archive, the run of fetchAllNews that follows keeps no
\* candidate of link u after its archive filter: none is sorted, cut, written
\* or returned.
C28_NoRepublication ==
    pc \in { "sort", "save", "done" }
    => /\ Links(freshArticles) \cap PutByRun = { }
       /\ Links(topArticles) \cap PutByRun = { }
       /\ rawFile # << >> => Links(rawFile[1]) \cap PutByRun = { }

\* the feed delivered the article the run had archived, and the fetch run
\* returned without it
C28_Witness ==
    /\ pc = "done"
    /\ "u1" \in PutByRun
    /\ "u1" \in Links(uniqueArticles)
    /\ "u1" \notin Links(topArticles)

(***************************************************************************)
(* The fuzzy rule of wasPublished on one pair: the title of a candidate    *)
(* and the headline of an archive entry, both normalized as the code       *)
(* normalizes them before the rule is applied.                             *)
(***************************************************************************)
FuzzyTitles ==
    { "Panda panda panda panda panda",
      "Panda panda panda panda",
      "Giant giant panda numbers rise",
      "Giant panda numbers fall",
      "Giant panda habitat lost",
      "Scientists Achieve Coral Reef Recovery Record After Bleaching",
      "Solar power record broken again",
      "Wind farm opens",
      "Panda visits solar power plant",
      "" }

FuzzyHeadlines ==
    { "Giant panda numbers rise",
      "Coral Reef Shows Record Recovery After Bleaching",
      "Solar power record broken twice",
      "Panda Panda: giant panda numbers rise",
      "Solar Record!",
      "" }

InitFuzzy ==
    /\ PipelineOff
    /\ phase = "pair"
    /\ arg \in [title : FuzzyTitles, headline : FuzzyHeadlines]
    /\ res = << >>

\* one turn of the loop over publishedTitles
ApplyFuzzy ==
    /\ phase = "pair"
    /\ LET titleWords == significantWords(normalizeTitle(arg.title))
           pubTitle == normalizeTitle(arg.headline)
           pubWords == significantWords(pubTitle)
       IN  res' = << [titleWords |-> titleWords,
                      pubWords |-> pubWords,
                      matchingWords |-> countMatching(titleWords, pubWords, 1, 0),
                      reported |-> fuzzyMatches(titleWords, pubTitle)] >>
    /\ phase' = "measured"
    /\ UNCHANGED << arg, pipelineVars, siteVars >>

\* the pair is taken the other way round: the headline as candidate
ApplyFuzzySwapped ==
    /\ phase = "measured"
    /\ LET titleWords == significantWords(normalizeTitle(arg.headline))
           pubTitle == normalizeTitle(arg.title)
           pubWords == significantWords(pubTitle)
       IN  res' = << res[1],
                     [titleWords |-> titleWords,
                      pubWords |-> pubWords,
                      matchingWords |-> countMatching(titleWords, pubWords, 1, 0),
                      reported |-> fuzzyMatches(titleWords, pubTitle)] >>
    /\ phase' = "swapped"
    /\ UNCHANGED << arg, pipelineVars, siteVars >>

NextFuzzy == ApplyFuzzy \/ ApplyFuzzySwapped

SpecFuzzy == InitFuzzy /\ [][NextFuzzy]_vars

\* the distinct words the two lists share
DistinctShared(measure) == Range(measure.titleWords) \cap Range(measure.pubWords)

\* C29: the number of matching words is at most the smaller of the numbers of
\* words of the two titles, so that the ratio is between 0 and 1, and a
\* candidate that shares one distinct significant word with the archived
\* title is not reported by the fuzzy rule.
C29_RatioWithinUnit ==
    \A k \in 1..Len(res) :
        /\ res[k].matchingWords
              <= Min(Len(res[k].titleWords), Len(res[k].pubWords))
        /\ Cardinality(DistinctShared(res[k])) = 1 => ~res[k].reported

\* what the count does satisfy: it is at most the number of words of the
\* candidate, and a pair that shares no word is not reported
MatchingWithinCandidate ==
    \A k \in 1..Len(res) :
        /\ res[k].matchingWords <= Len(res[k].titleWords)
        /\ DistinctShared(res[k]) = { } => ~res[k].reported

(***************************************************************************)
(* The slugs of the archive over the runs of generateSite                  *)
(***************************************************************************)
UniqueSlugs(file) ==
    \A i \in 1..Len(file) : \A j \in 1..Len(file) :
        file[i].slug = file[j].slug => i = j

\* C30: a run of updateArticleArchive that starts from an archive without two
\* entries of one slug leaves an archive without two entries of one slug,
\* whatever the list of articles is, a list with two articles of one slug
\* included.
C30_SlugsUnique ==
    [][UniqueSlugs(archiveFile) => UniqueSlugs(archiveFile')]_vars

\* what the run does keep: two entries of one slug are both entries the run
\* has pushed, so that an article whose slug the archive had is not added
OldSlugsNotAddedAgain ==
    [][UniqueSlugs(archiveFile)
         => \A i \in 1..Len(archiveFile') : \A j \in 1..Len(archiveFile') :
                (i # j /\ archiveFile'[i].slug = archiveFile'[j].slug)
                    => /\ archiveFile'[i] \notin Range(archiveFile)
                       /\ archiveFile'[j] \notin Range(archiveFile)]_vars

====
